---- MODULE Spec2Model ----
(***************************************************************************)
(* The real-time session engine of the mock-interview page                 *)
(* (frontend/src/pages/InterviewInProgress.tsx): React state, the effects  *)
(* that re-run on state changes, the timers and promises in flight, and    *)
(* the closures each asynchronous continuation captured when it started.   *)
(***************************************************************************)
EXTENDS Integers, Sequences, FiniteSets, TLC

VARIABLES
  st,        \* the component's React state (one field per useState)
  det,       \* the face-detection effect: intervals armed + captured closure
  inflight,  \* detectFace calls awaiting faceapi, each with its closure
  io,        \* other pending asynchronous work (fetches, model loads, timers)
  ends,      \* endInterview invocations, each with its closure and progress
  budget     \* how many more environment events of each kind may happen

vars == <<st, det, inflight, io, ends, budget>>

(***************************************************************************)
(* Bounds of the model.                                                    *)
(***************************************************************************)
MaxEnds == 2            \* endInterview invocations per session
MaxDetect == 2          \* polled / forced detectFace calls per session
MaxType == 1            \* edits of the answer text area per session
MaxToggle == 1          \* clicks on the camera toggle per session
SessionEnds == 2        \* endInterview invocations in SessionSpec
SessionTypes == 1       \* edits of the answer text area in SessionSpec
NavigationEnds == 1     \* endInterview invocations in NavigationSpec
PerceptionEnds == 1     \* endInterview invocations in PerceptionSpec
PerceptionDetects == 2  \* polled / forced detectFace calls in PerceptionSpec
PerceptionToggles == 1  \* clicks on the camera toggle in PerceptionSpec
ShutdownEnds == 1       \* endInterview invocations in ShutdownSpec
TicksPerSession == 2    \* strides in which the countdown is followed
CountdownEnds == 2      \* endInterview invocations in CountdownSpec
SpeechSessionEnds == 1  \* endInterview invocations in SpeechSpec
QuestionsEnds == 1      \* endInterview invocations in QuestionsSpec
ReportEnds == 1         \* endInterview invocations in ReportSpec
MaxHistory == 2         \* questions answered before the end in ReportSpec
ScoringTypes == 1       \* edits of the answer box in ScoringSpec
FailureDetects == 2     \* polled / forced detectFace calls in FailureSpec
EmptySetEnds == 1       \* endInterview invocations in EmptySetSpec
FaceHitsDetects == 2    \* polled / forced detectFace calls in FaceHitsSpec
WatchdogDetects == 2    \* polled / forced detectFace calls in WatchdogSpec
WatchdogEnds == 1       \* endInterview invocations in WatchdogSpec
WatchdogToggles == 1    \* clicks on the camera toggle in WatchdogSpec
MonitorDetects == 1     \* polled detectFace calls in MonitorSpec
DictationTypes == 1     \* edits of the answer box in DictationSpec
DictationLimit == 4     \* longest answer a speech result is still added to

(***************************************************************************)
(* Arithmetic helpers.                                                     *)
(***************************************************************************)
Min(a, b) == IF a < b THEN a ELSE b
Max(a, b) == IF a > b THEN a ELSE b

\* Math.round(num / den) for den > 0: floor(num/den + 1/2).
Round(num, den) == (2 * num + den) \div (2 * den)

RECURSIVE SumSeq(_)
SumSeq(s) == IF s = <<>> THEN 0 ELSE Head(s) + SumSeq(Tail(s))

(***************************************************************************)
(* Text.  An answer is a sequence of one-character strings, so that        *)
(* substring tests, lengths and the pattern matches of the scoring engine  *)
(* are computed on the characters as the source computes them.             *)
(***************************************************************************)
UpperChars ==
  <<"A", "B", "C", "D", "E", "F", "G", "H", "I", "J", "K", "L", "M",
    "N", "O", "P", "Q", "R", "S", "T", "U", "V", "W", "X", "Y", "Z">>

LowerChars ==
  <<"a", "b", "c", "d", "e", "f", "g", "h", "i", "j", "k", "l", "m",
    "n", "o", "p", "q", "r", "s", "t", "u", "v", "w", "x", "y", "z">>

UpperSet == {UpperChars[k] : k \in 1..Len(UpperChars)}
LowerSet == {LowerChars[k] : k \in 1..Len(LowerChars)}
DigitSet == {"0", "1", "2", "3", "4", "5", "6", "7", "8", "9"}

IsUpper(c) == c \in UpperSet                                   \* [A-Z]
IsWordChar(c) == c \in UpperSet \cup LowerSet \cup DigitSet \cup {"_"}  \* \w
IsSpace(c) == c \in {" ", "\t", "\n"}                          \* \s
IsTerminator(c) == c \in {".", "!", "?"}                       \* [.!?]

toLowerChar(c) ==
  IF c \in UpperSet
    THEN LowerChars[CHOOSE k \in 1..Len(UpperChars) : UpperChars[k] = c]
    ELSE c

\* String.prototype.toLowerCase
toLowerCase(t) == [i \in 1..Len(t) |-> toLowerChar(t[i])]

\* String.prototype.includes
includes(t, p) ==
  \E i \in 1..(Len(t) - Len(p) + 1) : SubSeq(t, i, i + Len(p) - 1) = p

\* String.prototype.endsWith
endsWith(t, p) ==
  Len(t) >= Len(p) /\ SubSeq(t, Len(t) - Len(p) + 1, Len(t)) = p

\* A word character stands at index i of t (false outside the text).
WordAt(t, i) == i >= 1 /\ i <= Len(t) /\ IsWordChar(t[i])

\* The first index >= i that holds no word character (Len(t)+1 if none): \w+
RECURSIVE WordRunEnd(_, _)
WordRunEnd(t, i) == IF WordAt(t, i) THEN WordRunEnd(t, i + 1) ELSE i

\* The first index >= i that holds no white space: \s+
RECURSIVE SpaceRunEnd(_, _)
SpaceRunEnd(t, i) ==
  IF i <= Len(t) /\ IsSpace(t[i]) THEN SpaceRunEnd(t, i + 1) ELSE i

\* The first index >= i that holds a sentence terminator: [^.!?]*
RECURSIVE TerminatorFrom(_, _)
TerminatorFrom(t, i) ==
  IF i <= Len(t) /\ ~IsTerminator(t[i]) THEN TerminatorFrom(t, i + 1) ELSE i

\* The lower-case literal lit matches at index i ignoring case: the index
\* after the match, 0 when it does not match.
LitEnd(t, i, lit) ==
  IF i >= 1 /\ i + Len(lit) - 1 <= Len(t)
       /\ toLowerCase(SubSeq(t, i, i + Len(lit) - 1)) = lit
    THEN i + Len(lit)
    ELSE 0

\* (w1|w2|...)\b at index i: the alternatives are tried in order and the
\* first one that is followed by a word boundary wins.
FirstOf(hits) == CHOOSE k \in hits : \A j \in hits : k <= j

WordEndsAt(t, e) == e > 0 /\ ~WordAt(t, e)

AltHits(t, i, alts) ==
  {k \in 1..Len(alts) : WordEndsAt(t, LitEnd(t, i, alts[k]))}

FirstLitEnd(t, i, alts, hits) ==
  IF hits = {} THEN 0 ELSE LitEnd(t, i, alts[FirstOf(hits)])

AltWordEnd(t, i, alts) == FirstLitEnd(t, i, alts, AltHits(t, i, alts))

FillerWords ==
  << <<"u", "m">>,
     <<"u", "h">>,
     <<"l", "i", "k", "e">>,
     <<"y", "o", "u", " ", "k", "n", "o", "w">>,
     <<"b", "a", "s", "i", "c", "a", "l", "l", "y">>,
     <<"a", "c", "t", "u", "a", "l", "l", "y">>,
     <<"l", "i", "t", "e", "r", "a", "l", "l", "y">> >>

SingularSubjects ==
  << <<"h", "e">>,
     <<"s", "h", "e">>,
     <<"i", "t">> >>

PluralVerbs ==
  << <<"a", "r", "e">>,
     <<"w", "e", "r", "e">>,
     <<"h", "a", "v", "e", " ", "b", "e", "e", "n">> >>

PluralSubjects ==
  << <<"t", "h", "e", "y">>,
     <<"w", "e">>,
     <<"y", "o", "u">> >>

SingularVerbs ==
  << <<"i", "s">>,
     <<"w", "a", "s">>,
     <<"h", "a", "s", " ", "b", "e", "e", "n">> >>

TransitionWords ==
  << <<"f", "i", "r", "s", "t">>,
     <<"s", "e", "c", "o", "n", "d">>,
     <<"t", "h", "i", "r", "d">>,
     <<"f", "i", "n", "a", "l", "l", "y">>,
     <<"i", "n", " ", "c", "o", "n", "c", "l", "u", "s", "i", "o", "n">>,
     <<"t", "h", "e", "r", "e", "f", "o", "r", "e">>,
     <<"c", "o", "n", "s", "e", "q", "u", "e", "n", "t", "l", "y">>,
     <<"h", "o", "w", "e", "v", "e", "r">>,
     <<"m", "o", "r", "e", "o", "v", "e", "r">>,
     <<"f", "u", "r", "t", "h", "e", "r", "m", "o", "r", "e">> >>

TechnicalTerms ==
  << <<"a", "l", "g", "o", "r", "i", "t", "h", "m">>,
     <<"f", "u", "n", "c", "t", "i", "o", "n">>,
     <<"c", "o", "m", "p", "o", "n", "e", "n", "t">>,
     <<"s", "t", "a", "t", "e">>,
     <<"p", "r", "o", "p", "s">>,
     <<"h", "o", "o", "k">>,
     <<"a", "p", "i">>,
     <<"i", "n", "t", "e", "r", "f", "a", "c", "e">>,
     <<"d", "e", "p", "e", "n", "d", "e", "n", "c", "y">>,
     <<"f", "r", "a", "m", "e", "w", "o", "r", "k">>,
     <<"l", "i", "b", "r", "a", "r", "y">> >>


\* /\b(\w+)\s+\1\b/gi at index i: a word, white space, the same word again.
RepeatedWordEnd(t, i) ==
  IF WordAt(t, i) /\ ~WordAt(t, i - 1)
    THEN LET e == WordRunEnd(t, i)
             s == SpaceRunEnd(t, e)
             r == LitEnd(t, s, toLowerCase(SubSeq(t, i, e - 1)))
         IN  IF s > e /\ r > 0 /\ ~WordAt(t, r) THEN r ELSE 0
    ELSE 0

\* /\w+\s+[A-Z]/g at index i: a word, white space, a capital letter.
MissingPeriodEnd(t, i) ==
  IF WordAt(t, i)
    THEN LET e == WordRunEnd(t, i)
             s == SpaceRunEnd(t, e)
         IN  IF s > e /\ s <= Len(t) /\ IsUpper(t[s]) THEN s + 1 ELSE 0
    ELSE 0

\* The (\w+\s+) groups that start at index i: how many there are before the
\* last word, and the index after that word.
RECURSIVE WordGroups(_, _, _)
WordGroups(t, i, m) ==
  LET e == WordRunEnd(t, i)
      s == SpaceRunEnd(t, e)
  IN  IF s > e /\ WordAt(t, s)
        THEN WordGroups(t, s, m + 1)
        ELSE [groups |-> m, wordEnd |-> e]

\* /\b(\w+\s+){40,}\w+[.!?]/g at index i: 41 or more words, then [.!?].
RunOnEnd(t, i) ==
  IF WordAt(t, i) /\ ~WordAt(t, i - 1)
    THEN LET g == WordGroups(t, i, 0)
         IN  IF g.groups >= 40 /\ g.wordEnd <= Len(t)
                  /\ IsTerminator(t[g.wordEnd])
               THEN g.wordEnd + 1
               ELSE 0
    ELSE 0

\* /\b(w1|w2|...)\b/gi at index i.
WordListEnd(t, i, alts) ==
  IF ~WordAt(t, i - 1) THEN AltWordEnd(t, i, alts) ELSE 0

\* /\b(s1|s2|s3)\s+(v1|v2|v3)\b/gi at index i.
\* \s+ after a subject that ended at index e: the index the verb starts at,
\* 0 when there is no subject or no white space.
VerbStart(t, e, s) == IF e > 0 /\ s > e THEN s ELSE 0

\* The k-th subject at index i, white space, then one of the verbs.
AgreementAt(t, i, subjects, verbs, k) ==
  AltWordEnd(t,
             VerbStart(t, LitEnd(t, i, subjects[k]),
                       SpaceRunEnd(t, LitEnd(t, i, subjects[k]))),
             verbs)

AgreementHits(t, i, subjects, verbs) ==
  {k \in 1..Len(subjects) : AgreementAt(t, i, subjects, verbs, k) > 0}

FirstAgreement(t, i, subjects, verbs, hits) ==
  IF hits = {} THEN 0 ELSE AgreementAt(t, i, subjects, verbs, FirstOf(hits))

AgreementEnd(t, i, subjects, verbs) ==
  IF WordAt(t, i - 1) THEN 0
  ELSE FirstAgreement(t, i, subjects, verbs,
                      AgreementHits(t, i, subjects, verbs))

\* /[A-Z][^.!?]*[.!?]/g at index i: a capital letter up to the next [.!?].
SentenceEnd(t, i) ==
  IF i >= 1 /\ i <= Len(t) /\ IsUpper(t[i])
    THEN LET e == TerminatorFrom(t, i + 1)
         IN  IF e <= Len(t) THEN e + 1 ELSE 0
    ELSE 0

\* The index after the match of pattern pat that starts at index i, or 0.
MatchEnd(pat, t, i) ==
  CASE pat = "repeated" -> RepeatedWordEnd(t, i)
    [] pat = "missingPeriod" -> MissingPeriodEnd(t, i)
    [] pat = "runOn" -> RunOnEnd(t, i)
    [] pat = "filler" -> WordListEnd(t, i, FillerWords)
    [] pat = "singular" -> AgreementEnd(t, i, SingularSubjects, PluralVerbs)
    [] pat = "plural" -> AgreementEnd(t, i, PluralSubjects, SingularVerbs)
    [] pat = "transition" -> WordListEnd(t, i, TransitionWords)
    [] pat = "sentence" -> SentenceEnd(t, i)
    [] pat = "technical" -> WordListEnd(t, i, TechnicalTerms)

\* (text.match(pattern) || []).length for a global pattern: the matches are
\* found left to right and do not overlap.
RECURSIVE CountFrom(_, _, _)
CountAfter(pat, t, pos, end) ==
  IF end > 0 THEN 1 + CountFrom(pat, t, end) ELSE CountFrom(pat, t, pos + 1)

CountFrom(pat, t, pos) ==
  IF pos > Len(t) THEN 0 ELSE CountAfter(pat, t, pos, MatchEnd(pat, t, pos))

CountMatches(pat, t) == CountFrom(pat, t, 1)

grammarIssues ==
  << [pattern |-> "repeated", weight |-> 5],
     [pattern |-> "missingPeriod", weight |-> 3],
     [pattern |-> "runOn", weight |-> 10],
     [pattern |-> "filler", weight |-> 2],
     [pattern |-> "singular", weight |-> 5],
     [pattern |-> "plural", weight |-> 5] >>

positiveIndicators ==
  << [pattern |-> "transition", weight |-> 5],
     [pattern |-> "sentence", weight |-> 3],
     [pattern |-> "technical", weight |-> 2] >>

\* indicators.forEach: the sum of matches.length * weight.
RECURSIVE WeightedMatches(_, _)
WeightedMatches(indicators, text) ==
  IF indicators = <<>> THEN 0
  ELSE CountMatches(Head(indicators).pattern, text) * Head(indicators).weight
         + WeightedMatches(Tail(indicators), text)

totalPenalties(text) == WeightedMatches(grammarIssues, text)

totalBonuses(text) == WeightedMatches(positiveIndicators, text)

\* The score of an answer with no minimum text length requirement.
uncappedScore(text, score) == score

\* Very short answers are capped at 40.
cappedScore(text, score) == IF Len(text) < 50 THEN Min(score, 40) ELSE score

\* evaluateCommunication(text)
evaluateCommunication(text) ==
  IF text = <<>> THEN 0
  ELSE Max(0, Min(100, cappedScore(text, 70 - totalPenalties(text)
                                             + totalBonuses(text))))

\* The number of key phrases the answer mentions (each counted once).
matchedPhrases(answer, keyPhrases) ==
  Cardinality({k \in 1..Len(keyPhrases) :
                 includes(toLowerCase(answer), toLowerCase(keyPhrases[k]))})

\* The relevance score of a non-empty answer against a question's phrases.
relevanceOf(answer, keyPhrases) ==
  Min(Round(matchedPhrases(answer, keyPhrases) * 100,
            Min(5, Len(keyPhrases))),
      100)

(***************************************************************************)
(* Questions.  A question is named after its place in the source: the     *)
(* k-th bank question of a skill, the k-th generic skill question, the     *)
(* synthesised "Generic" question, the k-th fallback question.             *)
(***************************************************************************)
\* questionBank: the questions of each skill that has any.
questionBank(skill) ==
  CASE skill = "React" -> <<"React1", "React2", "React3">>
    [] skill = "JavaScript" -> <<"JavaScript1", "JavaScript2", "JavaScript3">>
    [] skill = "TypeScript" -> <<"TypeScript1", "TypeScript2">>
    [] skill = "Node.js" -> <<"Nodejs1", "Nodejs2">>
    [] OTHER -> <<>>

defaultSkillQuestions ==
  <<"Skill1", "Skill2", "Skill3", "Skill4", "Skill5", "Skill6">>

\* getDefaultQuestions()
getDefaultQuestions ==
  <<"Default1", "Default2", "Default3", "Default4", "Default5",
    "Default6", "Default7", "Default8", "Default9", "Default10">>

\* The names of all the questions of the page.
QuestionNames ==
  LET Items(arr) == {arr[k] : k \in 1..Len(arr)} IN
  UNION {Items(questionBank(skill)) :
           skill \in {"React", "JavaScript", "TypeScript", "Node.js"}}
    \cup Items(defaultSkillQuestions) \cup Items(getDefaultQuestions)
    \cup {"Generic"}

\* Math.floor(Math.random() * n) when Math.random() returned r[1] / r[2].
RandomIndex(r, n) == (r[1] * n) \div r[2]

\* Array.prototype.slice(0, n)
SliceTo(arr, n) == SubSeq(arr, 1, Min(Len(arr), Max(n, 0)))

\* shuffleArray: for i = length-1 down to 1, swap [i] with [floor(random*(i+1))]
RECURSIVE ShuffleFrom(_, _, _)
ShuffleFrom(arr, i, r) ==
  IF i < 1 THEN arr
  ELSE LET j == RandomIndex(r, i + 1)
           swapped == [arr EXCEPT ![i + 1] = arr[j + 1], ![j + 1] = arr[i + 1]]
       IN  ShuffleFrom(swapped, i - 1, r)

shuffleArray(arr, r) == ShuffleFrom(arr, Len(arr) - 1, r)

\* One randomly chosen bank question for each skill that has bank questions.
RECURSIVE SelectForSkills(_, _)
SelectForSkills(skills, r) ==
  IF skills = <<>> THEN <<>>
  ELSE LET bank == questionBank(Head(skills))
           pick == IF bank = <<>> THEN <<>>
                   ELSE <<bank[RandomIndex(r, Len(bank)) + 1]>>
       IN  pick \o SelectForSkills(Tail(skills), r)

\* while (selectedQuestions.length < questionCount): the generic skill
\* questions in order, then synthesised ones.
RECURSIVE PadQuestions(_, _, _)
PadQuestions(selected, defaults, questionCount) ==
  IF Len(selected) >= questionCount THEN selected
  ELSE IF defaults # <<>>
    THEN PadQuestions(Append(selected, Head(defaults)), Tail(defaults),
                      questionCount)
    ELSE PadQuestions(Append(selected, "Generic"), defaults, questionCount)

\* generateQuestionsForSkills without its slice(0, questionCount).
generateQuestionsForSkillsUnsliced(skills, questionCount, r) ==
  shuffleArray(
    PadQuestions(SelectForSkills(skills, r), defaultSkillQuestions,
                 questionCount),
    r)

\* generateQuestionsForSkills(skills, level, questionCount), with every call
\* of Math.random() returning r.
generateQuestionsForSkills(skills, questionCount, r) ==
  shuffleArray(
    SliceTo(PadQuestions(SelectForSkills(skills, r), defaultSkillQuestions,
                         questionCount),
            questionCount),
    r)

\* keyPhrases of each question of the page, by question name.
keyPhrasesOf(q) ==
  CASE q = "React1" ->
         << <<"s", "t", "a", "t", "e", " ", "m", "a", "n", "a", "g", "e", "m", "e", "n", "t">>,
            <<"s", "i", "d", "e", " ", "e", "f", "f", "e", "c", "t", "s">>,
            <<"f", "u", "n", "c", "t", "i", "o", "n", "a", "l">>,
            <<"l", "i", "f", "e", "c", "y", "c", "l", "e">>,
            <<"d", "e", "p", "e", "n", "d", "e", "n", "c", "i", "e", "s">> >>
    [] q = "React2" ->
         << <<"r", "e", "n", "d", "e", "r">>,
            <<"d", "o", "m">>,
            <<"d", "i", "f", "f">>,
            <<"u", "p", "d", "a", "t", "e">>,
            <<"p", "e", "r", "f", "o", "r", "m", "a", "n", "c", "e">>,
            <<"b", "a", "t", "c", "h">> >>
    [] q = "React3" ->
         << <<"l", "i", "f", "e", "c", "y", "c", "l", "e">>,
            <<"m", "o", "u", "n", "t">>,
            <<"u", "p", "d", "a", "t", "e">>,
            <<"u", "n", "m", "o", "u", "n", "t">>,
            <<"e", "f", "f", "e", "c", "t">>,
            <<"c", "l", "e", "a", "n", "u", "p">> >>
    [] q = "JavaScript1" ->
         << <<"s", "c", "o", "p", "e">>,
            <<"f", "u", "n", "c", "t", "i", "o", "n">>,
            <<"v", "a", "r", "i", "a", "b", "l", "e">>,
            <<"a", "c", "c", "e", "s", "s">>,
            <<"p", "r", "i", "v", "a", "t", "e">>,
            <<"e", "n", "c", "a", "p", "s", "u", "l", "a", "t", "i", "o", "n">> >>
    [] q = "JavaScript2" ->
         << <<"a", "s", "y", "n", "c", "h", "r", "o", "n", "o", "u", "s">>,
            <<"t", "h", "e", "n">>,
            <<"c", "a", "t", "c", "h">>,
            <<"a", "w", "a", "i", "t">>,
            <<"r", "e", "s", "o", "l", "v", "e">>,
            <<"r", "e", "j", "e", "c", "t">>,
            <<"c", "h", "a", "i", "n">> >>
    [] q = "JavaScript3" ->
         << <<"s", "t", "a", "c", "k">>,
            <<"q", "u", "e", "u", "e">>,
            <<"a", "s", "y", "n", "c">>,
            <<"s", "e", "t", "T", "i", "m", "e", "o", "u", "t">>,
            <<"c", "a", "l", "l", "b", "a", "c", "k">>,
            <<"n", "o", "n", "-", "b", "l", "o", "c", "k", "i", "n", "g">> >>
    [] q = "TypeScript1" ->
         << <<"t", "y", "p", "e">>,
            <<"i", "n", "t", "e", "r", "f", "a", "c", "e">>,
            <<"c", "o", "m", "p", "i", "l", "e", "-", "t", "i", "m", "e">>,
            <<"e", "r", "r", "o", "r">>,
            <<"g", "e", "n", "e", "r", "i", "c", "s">>,
            <<"a", "u", "t", "o", "c", "o", "m", "p", "l", "e", "t", "e">> >>
    [] q = "TypeScript2" ->
         << <<"g", "e", "n", "e", "r", "i", "c">>,
            <<"<", "T", ">">>,
            <<"c", "o", "n", "s", "t", "r", "a", "i", "n", "t">>,
            <<"e", "x", "t", "e", "n", "d", "s">>,
            <<"f", "l", "e", "x", "i", "b", "i", "l", "i", "t", "y">>,
            <<"t", "y", "p", "e", " ", "p", "a", "r", "a", "m", "e", "t", "e", "r">> >>
    [] q = "Nodejs1" ->
         << <<"e", "v", "e", "n", "t", " ", "l", "o", "o", "p">>,
            <<"a", "s", "y", "n", "c">>,
            <<"c", "a", "l", "l", "b", "a", "c", "k">>,
            <<"n", "o", "n", "-", "b", "l", "o", "c", "k", "i", "n", "g">>,
            <<"c", "o", "n", "c", "u", "r", "r", "e", "n", "c", "y">>,
            <<"s", "i", "n", "g", "l", "e", " ", "t", "h", "r", "e", "a", "d">> >>
    [] q = "Nodejs2" ->
         << <<"r", "e", "a", "d", "a", "b", "l", "e">>,
            <<"w", "r", "i", "t", "a", "b", "l", "e">>,
            <<"t", "r", "a", "n", "s", "f", "o", "r", "m">>,
            <<"c", "h", "u", "n", "k">>,
            <<"p", "i", "p", "e">>,
            <<"m", "e", "m", "o", "r", "y">>,
            <<"b", "u", "f", "f", "e", "r">> >>
    [] q = "Skill1" ->
         << <<"p", "r", "o", "j", "e", "c", "t">>,
            <<"i", "m", "p", "l", "e", "m", "e", "n", "t">>,
            <<"c", "h", "a", "l", "l", "e", "n", "g", "e">>,
            <<"s", "o", "l", "u", "t", "i", "o", "n">>,
            <<"e", "x", "p", "e", "r", "i", "e", "n", "c", "e">>,
            <<"a", "p", "p", "l", "i", "c", "a", "t", "i", "o", "n">> >>
    [] q = "Skill2" ->
         << <<"t", "r", "e", "n", "d">>,
            <<"n", "e", "w">>,
            <<"r", "e", "c", "e", "n", "t">>,
            <<"u", "p", "d", "a", "t", "e">>,
            <<"f", "e", "a", "t", "u", "r", "e">>,
            <<"f", "u", "t", "u", "r", "e">>,
            <<"d", "i", "r", "e", "c", "t", "i", "o", "n">> >>
    [] q = "Skill3" ->
         << <<"d", "e", "b", "u", "g">>,
            <<"i", "s", "s", "u", "e">>,
            <<"p", "r", "o", "b", "l", "e", "m">>,
            <<"a", "n", "a", "l", "y", "z", "e">>,
            <<"f", "i", "x">>,
            <<"s", "o", "l", "u", "t", "i", "o", "n">>,
            <<"a", "p", "p", "r", "o", "a", "c", "h">> >>
    [] q = "Skill4" ->
         << <<"l", "e", "a", "r", "n">>,
            <<"r", "e", "s", "o", "u", "r", "c", "e", "s">>,
            <<"c", "o", "m", "m", "u", "n", "i", "t", "y">>,
            <<"p", "r", "a", "c", "t", "i", "c", "e">>,
            <<"d", "o", "c", "u", "m", "e", "n", "t", "a", "t", "i", "o", "n">>,
            <<"u", "p", "d", "a", "t", "e">>,
            <<"s", "t", "u", "d", "y">> >>
    [] q = "Skill5" ->
         << <<"p", "e", "r", "f", "o", "r", "m", "a", "n", "c", "e">>,
            <<"o", "p", "t", "i", "m", "i", "z", "a", "t", "i", "o", "n">>,
            <<"s", "p", "e", "e", "d">>,
            <<"b", "o", "t", "t", "l", "e", "n", "e", "c", "k">>,
            <<"m", "e", "a", "s", "u", "r", "e">>,
            <<"i", "m", "p", "r", "o", "v", "e">>,
            <<"m", "e", "t", "r", "i", "c", "s">> >>
    [] q = "Skill6" ->
         << <<"m", "a", "i", "n", "t", "a", "i", "n", "a", "b", "l", "e">>,
            <<"s", "c", "a", "l", "a", "b", "l", "e">>,
            <<"o", "r", "g", "a", "n", "i", "z", "a", "t", "i", "o", "n">>,
            <<"s", "t", "r", "u", "c", "t", "u", "r", "e">>,
            <<"p", "a", "t", "t", "e", "r", "n">>,
            <<"c", "l", "e", "a", "n">>,
            <<"a", "r", "c", "h", "i", "t", "e", "c", "t", "u", "r", "e">> >>
    [] q = "Generic" ->
         << <<"p", "r", "o", "b", "l", "e", "m">>,
            <<"c", "h", "a", "l", "l", "e", "n", "g", "e">>,
            <<"s", "o", "l", "u", "t", "i", "o", "n">>,
            <<"a", "p", "p", "r", "o", "a", "c", "h">>,
            <<"r", "e", "s", "u", "l", "t">>,
            <<"o", "u", "t", "c", "o", "m", "e">> >>
    [] q = "Default1" ->
         << <<"u", "s", "e", "S", "t", "a", "t", "e">>,
            <<"u", "s", "e", "R", "e", "f">>,
            <<"r", "e", "-", "r", "e", "n", "d", "e", "r">>,
            <<"s", "t", "a", "t", "e">>,
            <<"r", "e", "f", "e", "r", "e", "n", "c", "e">>,
            <<"D", "O", "M">>,
            <<"u", "p", "d", "a", "t", "e">> >>
    [] q = "Default2" ->
         << <<"v", "i", "r", "t", "u", "a", "l", "i", "z", "a", "t", "i", "o", "n">>,
            <<"p", "a", "g", "i", "n", "a", "t", "i", "o", "n">>,
            <<"m", "e", "m", "o">>,
            <<"u", "s", "e", "M", "e", "m", "o">>,
            <<"m", "e", "m", "o">>,
            <<"k", "e", "y">>,
            <<"p", "e", "r", "f", "o", "r", "m", "a", "n", "c", "e">>,
            <<"l", "i", "s", "t">>,
            <<"r", "e", "n", "d", "e", "r", "i", "n", "g">> >>
    [] q = "Default3" ->
         << <<"j", "e", "s", "t">>,
            <<"t", "e", "s", "t", "i", "n", "g", " ", "l", "i", "b", "r", "a", "r", "y">>,
            <<"u", "n", "i", "t", " ", "t", "e", "s", "t">>,
            <<"i", "n", "t", "e", "g", "r", "a", "t", "i", "o", "n", " ", "t", "e", "s", "t">>,
            <<"e", "2", "e">>,
            <<"e", "n", "d", "-", "t", "o", "-", "e", "n", "d">>,
            <<"m", "o", "c", "k">>,
            <<"s", "n", "a", "p", "s", "h", "o", "t">> >>
    [] q = "Default4" ->
         << <<"f", "o", "r", "m">>,
            <<"v", "a", "l", "i", "d", "a", "t", "i", "o", "n">>,
            <<"f", "o", "r", "m", "i", "k">>,
            <<"r", "e", "a", "c", "t", "-", "h", "o", "o", "k", "-", "f", "o", "r", "m">>,
            <<"c", "o", "n", "t", "r", "o", "l", "l", "e", "d", " ", "c", "o", "m", "p", "o", "n", "e", "n", "t">>,
            <<"e", "r", "r", "o", "r">>,
            <<"v", "a", "l", "i", "d", "a", "t", "e">>,
            <<"s", "c", "h", "e", "m", "a">> >>
    [] q = "Default5" ->
         << <<"c", "o", "n", "t", "e", "x", "t">>,
            <<"p", "r", "o", "v", "i", "d", "e", "r">>,
            <<"c", "o", "n", "s", "u", "m", "e", "r">>,
            <<"u", "s", "e", "C", "o", "n", "t", "e", "x", "t">>,
            <<"g", "l", "o", "b", "a", "l", " ", "s", "t", "a", "t", "e">>,
            <<"p", "r", "o", "p", " ", "d", "r", "i", "l", "l", "i", "n", "g">>,
            <<"n", "e", "s", "t", "i", "n", "g">> >>
    [] q = "Default6" ->
         << <<"u", "s", "e", "E", "f", "f", "e", "c", "t">>,
            <<"u", "s", "e", "M", "e", "m", "o">>,
            <<"u", "s", "e", "C", "a", "l", "l", "b", "a", "c", "k">>,
            <<"d", "e", "p", "e", "n", "d", "e", "n", "c", "y", " ", "a", "r", "r", "a", "y">>,
            <<"m", "e", "m", "o", "i", "z", "a", "t", "i", "o", "n">>,
            <<"p", "e", "r", "f", "o", "r", "m", "a", "n", "c", "e">>,
            <<"s", "i", "d", "e", " ", "e", "f", "f", "e", "c", "t">> >>
    [] q = "Default7" ->
         << <<"S", "S", "R">>,
            <<"C", "S", "R">>,
            <<"s", "e", "r", "v", "e", "r", "-", "s", "i", "d", "e">>,
            <<"c", "l", "i", "e", "n", "t", "-", "s", "i", "d", "e">>,
            <<"r", "e", "n", "d", "e", "r", "i", "n", "g">>,
            <<"S", "E", "O">>,
            <<"h", "y", "d", "r", "a", "t", "i", "o", "n">>,
            <<"N", "e", "x", "t", ".", "j", "s">>,
            <<"p", "e", "r", "f", "o", "r", "m", "a", "n", "c", "e">> >>
    [] q = "Default8" ->
         << <<"R", "e", "d", "u", "x">>,
            <<"C", "o", "n", "t", "e", "x", "t">>,
            <<"g", "l", "o", "b", "a", "l", " ", "s", "t", "a", "t", "e">>,
            <<"s", "t", "o", "r", "e">>,
            <<"s", "t", "a", "t", "e", " ", "m", "a", "n", "a", "g", "e", "m", "e", "n", "t">>,
            <<"a", "c", "t", "i", "o", "n", "s">>,
            <<"r", "e", "d", "u", "c", "e", "r", "s">>,
            <<"s", "e", "l", "e", "c", "t", "o", "r", "s">> >>
    [] q = "Default9" ->
         << <<"e", "r", "r", "o", "r", " ", "b", "o", "u", "n", "d", "a", "r", "y">>,
            <<"c", "o", "m", "p", "o", "n", "e", "n", "t", "D", "i", "d", "C", "a", "t", "c", "h">>,
            <<"g", "e", "t", "D", "e", "r", "i", "v", "e", "d", "S", "t", "a", "t", "e", "F", "r", "o", "m", "E", "r", "r", "o", "r">>,
            <<"f", "a", "l", "l", "b", "a", "c", "k">>,
            <<"e", "r", "r", "o", "r", " ", "h", "a", "n", "d", "l", "i", "n", "g">>,
            <<"c", "r", "a", "s", "h">>,
            <<"r", "e", "c", "o", "v", "e", "r", "y">> >>
    [] q = "Default10" ->
         << <<"p", "o", "r", "t", "a", "l">>,
            <<"c", "r", "e", "a", "t", "e", "P", "o", "r", "t", "a", "l">>,
            <<"D", "O", "M">>,
            <<"m", "o", "d", "a", "l">>,
            <<"t", "o", "o", "l", "t", "i", "p">>,
            <<"a", "c", "c", "e", "s", "s", "i", "b", "i", "l", "i", "t", "y">>,
            <<"e", "v", "e", "n", "t", "s">>,
            <<"p", "a", "r", "e", "n", "t">> >>

(***************************************************************************)
(* Perception: the pure part of detectFace.  An intensity is an integer    *)
(* number of hundredths (30 stands for 0.3).                               *)
(***************************************************************************)
expressions ==
  <<"neutral", "happy", "sad", "angry", "fearful", "disgusted", "surprised">>

\* for (const expr of expressions) if (value > maxValue) {...}
RECURSIVE DominantFrom(_, _, _, _)
DominantFrom(face, i, maxExpression, maxValue) ==
  IF i > Len(expressions) THEN [expr |-> maxExpression, value |-> maxValue]
  ELSE IF face[expressions[i]] > maxValue
    THEN DominantFrom(face, i + 1, expressions[i], face[expressions[i]])
    ELSE DominantFrom(face, i + 1, maxExpression, maxValue)

Dominant(face) == DominantFrom(face, 1, "neutral", 0)

\* switch (maxExpression): base + Math.round(dominantStrength * scale)
expressionScoreOf(maxExpression, maxValue) ==
  CASE maxExpression = "happy" -> 50 + Round(maxValue * 50, 100)
    [] maxExpression = "neutral" -> 40 + Round(maxValue * 20, 100)
    [] maxExpression = "surprised" -> 30 + Round(maxValue * 20, 100)
    [] maxExpression = "sad" -> 15 + Round(maxValue * 25, 100)
    [] maxExpression = "fearful" -> 10 + Round(maxValue * 25, 100)
    [] maxExpression = "angry" -> 10 + Round(maxValue * 20, 100)
    [] maxExpression = "disgusted" -> 10 + Round(maxValue * 20, 100)
    [] OTHER -> 50

\* newScore: 70% new, 30% previous, only over a previous non-zero score.
smoothedScore(expressionScore, confidenceScore) ==
  IF confidenceScore > 0
    THEN Round(7 * expressionScore + 3 * confidenceScore, 10)
    ELSE expressionScore

\* boundedScore
boundedScore(newScore) == Max(10, Min(100, newScore))

\* Whether the displayed expression is replaced by the dominant one.
commitsExpression(maxValue, facialExpression) ==
  maxValue > 30 \/ facialExpression = "unknown" \/ facialExpression = "neutral"

\* calculateAverage(arr) with Math.floor in place of Math.round.
calculateAverageTruncating(arr) ==
  IF Len(arr) = 0 THEN 0 ELSE SumSeq(arr) \div Len(arr)

\* calculateAverage(arr)
calculateAverage(arr) ==
  IF Len(arr) = 0 THEN 0 ELSE Round(SumSeq(arr), Len(arr))

\* The averages (confidence, relevance, communication in 0..100, written
\* 1000000 * c + 1000 * r + m) whose weighted sum c * 0.3 + r * 0.4 + m * 0.3
\* is k + 1/2 exactly but comes out below k + 1/2 in the double-precision
\* arithmetic of the page, e.g. 57 * 0.3 + 40 * 0.4 + 48 * 0.3 =
\* 47.49999999999999.  At every other triple the double-precision sum rounds
\* as the exact sum does.
DoubleTiesBelow ==
  {
    1057, 1067, 1077, 1087, 1097, 1000024, 1001036, 1001046,
    1001096, 1002048, 1004062, 1004072, 1004082, 1004092, 1006096, 1009062,
    1009072, 1009082, 1009092, 1081006, 1081016, 1081026, 1081036, 1081046,
    1081096, 1086006, 1086016, 1086026, 1086036, 1086046, 1086096, 1091006,
    1091016, 1091026, 1091036, 1091046, 2000023, 2002057, 2002067, 2002077,
    2002087, 2002097, 3000062, 3000072, 3000082, 3000092, 3002036, 3002046,
    3002096, 3005062, 3005072, 3005082, 3005092, 3043008, 3043018, 4000031,
    4000041, 5001062, 5001072, 5001082, 5001092, 5003096, 6001001, 6001031,
    6001041, 6002003, 6004057, 6004067, 6004077, 6004087, 6081001, 6081011,
    6081021, 6081031, 6081041, 6081051, 6086001, 6086011, 6086021, 6086031,
    6086041, 6086051, 6091001, 6091011, 6091021, 6091031, 6091041, 6091051,
    8000057, 8000067, 8000077, 8000087, 8000097, 8043003, 8043013, 8043023,
    9000036, 9000096, 9003062, 9003072, 9003082, 9003092, 9005006, 9005036,
    10001057, 10001067, 10001077, 10001087, 11001036, 11081006, 11081016, 11081026,
    11081036, 11081046, 11086006, 11086016, 11086026, 11086036, 11086046, 11091006,
    11091016, 11091026, 11091036, 11091046, 12002057, 12002067, 12002077, 12002087,
    12004001, 12004031, 12009001, 12043009, 12043019, 12043029, 13000062, 13000072,
    13000082, 13000092, 13043008, 13043018, 16081001, 16081011, 16081021, 16081031,
    16081041, 16081051, 16086001, 16086011, 16086021, 16086031, 16086041, 16086051,
    16091001, 16091011, 16091021, 16091031, 16091041, 16091051, 17002002, 17002062,
    17002072, 17002082, 17043004, 17043014, 17043024, 18000057, 18000067, 18000077,
    18000087, 18002001, 18002031, 18005057, 18005067, 18005077, 18010007, 18010017,
    18010057, 18010067, 18015007, 18015057, 18015067, 18020007, 18020057, 18043003,
    18043013, 18043023, 21081006, 21081016, 21081026, 21081036, 21081046, 21086006,
    21086016, 21086026, 21086036, 21086046, 21091006, 21091016, 21091026, 21091036,
    21091046, 22002057, 22002067, 22002077, 22043009, 22043019, 23000002, 23000062,
    23000072, 23000082, 23005002, 23005012, 23005022, 23005062, 23005072, 23010002,
    23010012, 23010062, 23015002, 23015062, 23020002, 23043008, 23043018, 24000001,
    24003007, 24003017, 24003057, 24003067, 24003077, 24004009, 24008007, 24008017,
    24008057, 24008067, 24009009, 24013007, 24013057, 24018057, 24081003, 24081013,
    24081023, 24081033, 24081043, 24081053, 24081063, 24081073, 24086003, 24086013,
    24086023, 24086033, 24086043, 24086053, 24086063, 24086073, 24091003, 24091013,
    24091023, 24091033, 24091043, 24091053, 24091063, 26081001, 26081011, 26081021,
    26081031, 26081041, 26081051, 26086001, 26086011, 26086021, 26086031, 26086041,
    26086051, 26091001, 26091011, 26091021, 26091031, 26091041, 26091051, 27043004,
    27043014, 29003002, 29003012, 29003062, 29003072, 29004004, 29008002, 29008012,
    29008062, 29009004, 29013002, 29081008, 29081018, 29081028, 29081038, 29081048,
    29081058, 29081068, 29086008, 29086018, 29086028, 29086038, 29086048, 29086058,
    29086068, 29091008, 29091018, 29091028, 29091038, 29091048, 29091058, 31000004,
    31004002, 31004012, 31004062, 31005004, 31009002, 31009062, 31010004, 31014002,
    31020004, 31020014, 31020024, 31020034, 31020044, 31025004, 31025014, 31025024,
    31025034, 31030004, 31030014, 31030024, 31030034, 31035004, 31035014, 31035024,
    31040004, 31040014, 31045004, 31045014, 31050004, 31081006, 31081016, 31081026,
    31081036, 31081046, 31086006, 31086016, 31086026, 31086036, 31086046, 31091006,
    31091016, 31091026, 31091036, 31091046, 32043009, 34003007, 34003057, 34003067,
    34004009, 34008007, 34008057, 34081003, 34081013, 34081023, 34081033, 34081043,
    34081053, 34081063, 34086003, 34086013, 34086023, 34086033, 34086043, 34086053,
    34086063, 34091003, 34091013, 34091023, 34091033, 34091043, 34091053, 36000009,
    36004007, 36004057, 36005009, 36009057, 36015009, 36015019, 36015029, 36015039,
    36015049, 36020009, 36020019, 36020029, 36020039, 36025009, 36025019, 36025029,
    36030009, 36030019, 36030029, 36035009, 36035019, 36040009, 36045009, 36081001,
    36081011, 36081021, 36081031, 36081041, 36081051, 36086001, 36086011, 36086021,
    36086031, 36086041, 36086051, 36091001, 36091011, 36091021, 36091031, 36091041,
    36091051, 37043004, 39003002, 39003062, 39004004, 39008002, 39081008, 39081018,
    39081028, 39081038, 39081048, 39081058, 39086008, 39086018, 39086028, 39086038,
    39086048, 39086058, 39091008, 39091018, 39091028, 39091038, 39091048, 41000004,
    41004002, 41005004, 41010004, 41010014, 41010024, 41010034, 41010044, 41015004,
    41015014, 41015024, 41015034, 41015044, 41020004, 41020014, 41020024, 41020034,
    41025004, 41025014, 41025024, 41030004, 41030014, 41030024, 41035004, 41035014,
    41040004, 41045004, 41081006, 41081016, 41081026, 41081036, 41081046, 41086006,
    41086016, 41086026, 41086036, 41086046, 41091006, 41091016, 41091026, 41091036,
    41091046, 44003057, 44081003, 44081013, 44081023, 44081033, 44081043, 44081053,
    44086003, 44086013, 44086023, 44086033, 44086043, 44086053, 44091003, 44091013,
    44091023, 44091033, 44091043, 46007003, 46007013, 46007023, 46010009, 46010019,
    46010029, 46010039, 46015009, 46015019, 46015029, 46015039, 46020009, 46020019,
    46020029, 46025009, 46025019, 46030009, 46030019, 46035009, 46081001, 46081011,
    46081021, 46081031, 46081041, 46081051, 46086001, 46086011, 46086021, 46086031,
    46086041, 46086051, 46091001, 46091011, 46091021, 46091031, 46091041, 48000057,
    48003003, 48003013, 48003023, 48003053, 48006009, 48006019, 48006029, 48006039,
    48006049, 48008003, 48008013, 48008023, 48011009, 48011019, 48011029, 48011039,
    48013003, 48013013, 48013023, 48016009, 48016019, 48016029, 48018003, 48018013,
    48018023, 48021009, 48021019, 48021029, 48026009, 48026019, 48031009, 48036009,
    49081008, 49081018, 49081028, 49081038, 49081048, 49086008, 49086018, 49086028,
    49086038, 49086048, 49091008, 49091018, 49091028, 49091038, 51002008, 51002018,
    51002048, 51005004, 51005014, 51005024, 51005034, 51005044, 51007008, 51007018,
    51010004, 51010014, 51010024, 51010034, 51015004, 51015014, 51015024, 51015034,
    51020004, 51020014, 51020024, 51025004, 51025014, 51030004, 51030014, 51035004,
    51081006, 51081016, 51081026, 51081036, 51081046, 51086006, 51086016, 51086026,
    51086036, 51086046, 51091006, 51091016, 51091026, 51091036, 53001004, 53001014,
    53001024, 53001034, 53001044, 53003008, 53003018, 53003048, 53006004, 53006014,
    53006024, 53006034, 53006044, 53008008, 53008018, 53011004, 53011014, 53011024,
    53011034, 53013008, 53013018, 53016004, 53016014, 53016024, 53018008, 53018018,
    53021004, 53021014, 53021024, 53026004, 53026014, 53031004, 53036004, 53043008,
    53043018, 53043028, 53043038, 53043048, 53043058, 53043068, 53043078, 53043088,
    53043098, 54001003, 54001013, 54001023, 54081003, 54081013, 54081023, 54081033,
    54081043, 54086003, 54086013, 54086023, 54086033, 54086043, 54091003, 54091013,
    54091023, 54091033, 57000008, 57000018, 57000048, 57001000, 57001010, 57001020,
    57001030, 57001040, 57003004, 57003014, 57003024, 57003034, 57003044, 57005008,
    57005018, 57008004, 57008014, 57008024, 57008034, 57010008, 57010018, 57013004,
    57013014, 57013024, 57015008, 57015018, 57018004, 57018014, 57018024, 57020008,
    57020018, 57023004, 57023014, 57025008, 57028004, 57030008, 57033004, 57040008,
    57040018, 57040028, 57040038, 57040048, 57040058, 57040068, 57040078, 57040088,
    57040098, 57045008, 57045018, 57045028, 57045038, 57045048, 57045058, 57045068,
    57045078, 57045088, 57050008, 57050018, 57050028, 57050038, 57050048, 57050058,
    57050068, 57050078, 57050088, 57055008, 57055018, 57055028, 57055038, 57055048,
    57055058, 57055068, 57055078, 57060008, 57060018, 57060028, 57060038, 57060048,
    57060058, 57060068, 57065008, 57065018, 57065028, 57065038, 57065048, 57065058,
    57065068, 57070008, 57070018, 57070028, 57070038, 57070048, 57070058, 57075008,
    57075018, 57075028, 57075038, 57075048, 57080008, 57080018, 57080028, 57080038,
    57080048, 57085008, 57085018, 57085028, 57085038, 57090008, 57090018, 57090028,
    57095008, 57095018, 57095028, 57100008, 57100018, 58001009, 58001019, 58001029,
    58001039, 58003003, 58003013, 58003023, 58006009, 58006019, 58006029, 58006039,
    58008003, 58008013, 58008023, 58011009, 58011019, 58011029, 58013003, 58013013,
    58013023, 58016009, 58016019, 58018003, 58018013, 58018023, 58021009, 58021019,
    58026009, 58043003, 58043013, 58043023, 58043033, 58043043, 58043053, 58043063,
    58043073, 58043083, 58043093, 59001008, 59001018, 59081008, 59081018, 59081028,
    59081038, 59086008, 59086018, 59086028, 59086038, 59091008, 59091018, 59091028,
    62000003, 62000013, 62000023, 62001005, 62001015, 62001025, 62001035, 62003009,
    62003019, 62003029, 62003039, 62005003, 62005013, 62005023, 62008009, 62008019,
    62008029, 62010003, 62010013, 62010023, 62013009, 62013019, 62015003, 62015013,
    62015023, 62018009, 62018019, 62020003, 62020013, 62023009, 62025003, 62030003,
    62035003, 62035013, 62035023, 62035033, 62035043, 62035053, 62035063, 62035073,
    62035083, 62035093, 62040003, 62040013, 62040023, 62040033, 62040043, 62040053,
    62040063, 62040073, 62040083, 62040093, 62045003, 62045013, 62045023, 62045033,
    62045043, 62045053, 62045063, 62045073, 62045083, 62050003, 62050013, 62050023,
    62050033, 62050043, 62050053, 62050063, 62050073, 62050083, 62055003, 62055013,
    62055023, 62055033, 62055043, 62055053, 62055063, 62055073, 62060003, 62060013,
    62060023, 62060033, 62060043, 62060053, 62060063, 62065003, 62065013, 62065023,
    62065033, 62065043, 62065053, 62065063, 62070003, 62070013, 62070023, 62070033,
    62070043, 62070053, 62075003, 62075013, 62075023, 62075033, 62075043, 62080003,
    62080013, 62080023, 62080033, 62080043, 62085003, 62085013, 62085023, 62085033,
    62090003, 62090013, 62090023, 62095003, 62095013, 62095023, 62100003, 62100013,
    63001004, 63001014, 63001024, 63001034, 63003008, 63003018, 63006004, 63006014,
    63006024, 63006034, 63008008, 63008018, 63011004, 63011014, 63011024, 63013008,
    63013018, 63016004, 63016014, 63018008, 63018018, 63021004, 63021014, 63026004,
    63043008, 63043018, 63043028, 63043038, 63043048, 63043058, 63043068, 63043078,
    63043088, 64001003, 64001013, 64001023, 64081003, 64081013, 64081023, 64081033,
    64086003, 64086013, 64086023, 64086033, 64091003, 64091013, 64091023, 67000008,
    67000018, 67001000, 67001010, 67001020, 67001030, 67003004, 67003014, 67003024,
    67003034, 67005008, 67005018, 67008004, 67008014, 67008024, 67010008, 67010018,
    67013004, 67013014, 67015008, 67015018, 67018004, 67018014, 67020008, 67023004,
    67030008, 67030018, 67030028, 67030038, 67030048, 67030058, 67030068, 67030078,
    67030088, 67030098, 67035008, 67035018, 67035028, 67035038, 67035048, 67035058,
    67035068, 67035078, 67035088, 67035098, 67040008, 67040018, 67040028, 67040038,
    67040048, 67040058, 67040068, 67040078, 67040088, 67045008, 67045018, 67045028,
    67045038, 67045048, 67045058, 67045068, 67045078, 67050008, 67050018, 67050028,
    67050038, 67050048, 67050058, 67050068, 67050078, 67055008, 67055018, 67055028,
    67055038, 67055048, 67055058, 67055068, 67060008, 67060018, 67060028, 67060038,
    67060048, 67060058, 67065008, 67065018, 67065028, 67065038, 67065048, 67065058,
    67070008, 67070018, 67070028, 67070038, 67070048, 67075008, 67075018, 67075028,
    67075038, 67080008, 67080018, 67080028, 67080038, 67085008, 67085018, 67085028,
    67090008, 67090018, 67095008, 67095018, 67100008, 68001009, 68001019, 68001029,
    68003003, 68003013, 68003023, 68006009, 68006019, 68006029, 68008003, 68008013,
    68008023, 68011009, 68011019, 68013003, 68013013, 68016009, 68018003, 68018013,
    68021009, 68043003, 68043013, 68043023, 68043033, 68043043, 68043053, 68043063,
    68043073, 68043083, 69001008, 69001018, 69081008, 69081018, 69081028, 69086008,
    69086018, 69086028, 69091008, 69091018, 72000003, 72000013, 72000023, 72001005,
    72001015, 72001025, 72003009, 72003019, 72003029, 72005003, 72005013, 72005023,
    72008009, 72008019, 72010003, 72010013, 72013009, 72015003, 72015013, 72018009,
    72020003, 72030003, 72030013, 72030023, 72030033, 72030043, 72030053, 72030063,
    72030073, 72030083, 72030093, 72035003, 72035013, 72035023, 72035033, 72035043,
    72035053, 72035063, 72035073, 72035083, 72035093, 72040003, 72040013, 72040023,
    72040033, 72040043, 72040053, 72040063, 72040073, 72040083, 72045003, 72045013,
    72045023, 72045033, 72045043, 72045053, 72045063, 72045073, 72050003, 72050013,
    72050023, 72050033, 72050043, 72050053, 72050063, 72050073, 72055003, 72055013,
    72055023, 72055033, 72055043, 72055053, 72055063, 72060003, 72060013, 72060023,
    72060033, 72060043, 72060053, 72065003, 72065013, 72065023, 72065033, 72065043,
    72065053, 72070003, 72070013, 72070023, 72070033, 72070043, 72075003, 72075013,
    72075023, 72075033, 72080003, 72080013, 72080023, 72080033, 72085003, 72085013,
    72085023, 72090003, 72090013, 72095003, 72095013, 72100003, 73001004, 73001014,
    73001024, 73003008, 73003018, 73006004, 73006014, 73006024, 73008008, 73008018,
    73011004, 73011014, 73013008, 73016004, 73018008, 73021004, 73043008, 73043018,
    73043028, 73043038, 73043048, 73043058, 73043068, 73043078, 74001003, 74001013,
    74001023, 74081003, 74081013, 74081023, 74086003, 74086013, 74086023, 74091003,
    74091013, 77000008, 77000018, 77001000, 77001010, 77001020, 77003004, 77003014,
    77003024, 77005008, 77005018, 77008004, 77008014, 77010008, 77013004, 77015008,
    77018004, 77025008, 77025018, 77025028, 77025038, 77025048, 77025058, 77025068,
    77025078, 77025088, 77025098, 77030008, 77030018, 77030028, 77030038, 77030048,
    77030058, 77030068, 77030078, 77030088, 77035008, 77035018, 77035028, 77035038,
    77035048, 77035058, 77035068, 77035078, 77035088, 77040008, 77040018, 77040028,
    77040038, 77040048, 77040058, 77040068, 77040078, 77045008, 77045018, 77045028,
    77045038, 77045048, 77045058, 77045068, 77050008, 77050018, 77050028, 77050038,
    77050048, 77050058, 77050068, 77055008, 77055018, 77055028, 77055038, 77055048,
    77055058, 77060008, 77060018, 77060028, 77060038, 77060048, 77065008, 77065018,
    77065028, 77065038, 77065048, 77070008, 77070018, 77070028, 77070038, 77075008,
    77075018, 77075028, 77080008, 77080018, 77080028, 77085008, 77085018, 77090008,
    77095008, 78001009, 78001019, 78003003, 78003013, 78003023, 78006009, 78006019,
    78008003, 78008013, 78011009, 78013003, 78018003, 78043003, 78043013, 78043023,
    78043033, 78043043, 78043053, 78043063, 78043073, 79001008, 79001018, 79081008,
    79081018, 79086008, 79086018, 79091008, 82000003, 82000013, 82000023, 82001005,
    82001015, 82003009, 82003019, 82005003, 82005013, 82008009, 82010003, 82015003,
    82019001, 82019011, 82019021, 82019031, 82019041, 82019051, 82020003, 82020013,
    82020023, 82020033, 82020043, 82020053, 82020063, 82020073, 82020083, 82020093,
    82025003, 82025013, 82025023, 82025033, 82025043, 82025053, 82025063, 82025073,
    82025083, 82025093, 82030003, 82030013, 82030023, 82030033, 82030043, 82030053,
    82030063, 82030073, 82030083, 82035003, 82035013, 82035023, 82035033, 82035043,
    82035053, 82035063, 82035073, 82035083, 82040003, 82040013, 82040023, 82040033,
    82040043, 82040053, 82040063, 82040073, 82045003, 82045013, 82045023, 82045033,
    82045043, 82045053, 82045063, 82050003, 82050013, 82050023, 82050033, 82050043,
    82050053, 82050063, 82055003, 82055013, 82055023, 82055033, 82055043, 82055053,
    82060003, 82060013, 82060023, 82060033, 82060043, 82065003, 82065013, 82065023,
    82065033, 82065043, 82070003, 82070013, 82070023, 82070033, 82075003, 82075013,
    82075023, 82080003, 82080013, 82080023, 82085003, 82085013, 82090003, 82095003,
    83001004, 83001014, 83003008, 83003018, 83006004, 83006014, 83008008, 83011004,
    83043008, 83043018, 83043028, 83043038, 83043048, 83043058, 83043068, 84001003,
    84001013, 84081003, 84081013, 84086003, 84086013, 84091003, 87000008, 87000018,
    87001000, 87001010, 87003004, 87003014, 87005008, 87008004, 87015008, 87015018,
    87015028, 87015038, 87015048, 87015058, 87015068, 87015078, 87015088, 87015098,
    87019006, 87019016, 87019026, 87019036, 87019046, 87019096, 87020008, 87020018,
    87020028, 87020038, 87020048, 87020058, 87020068, 87020078, 87020088, 87020098,
    87025008, 87025018, 87025028, 87025038, 87025048, 87025058, 87025068, 87025078,
    87025088, 87030008, 87030018, 87030028, 87030038, 87030048, 87030058, 87030068,
    87030078, 87035008, 87035018, 87035028, 87035038, 87035048, 87035058, 87035068,
    87035078, 87040008, 87040018, 87040028, 87040038, 87040048, 87040058, 87040068,
    87045008, 87045018, 87045028, 87045038, 87045048, 87045058, 87050008, 87050018,
    87050028, 87050038, 87050048, 87050058, 87055008, 87055018, 87055028, 87055038,
    87055048, 87060008, 87060018, 87060028, 87060038, 87065008, 87065018, 87065028,
    87065038, 87070008, 87070018, 87070028, 87075008, 87075018, 87080008, 87080018,
    87085008, 88001009, 88003003, 88003013, 88006009, 88008003, 88043003, 88043013,
    88043023, 88043033, 88043043, 88043053, 88043063, 89001008, 89081008, 89086008,
    92000003, 92000013, 92001005, 92003009, 92005003, 92014001, 92014011, 92014021,
    92014031, 92014041, 92014051, 92015003, 92015013, 92015023, 92015033, 92015043,
    92015053, 92015063, 92015073, 92015083, 92015093, 92019001, 92019011, 92019021,
    92019031, 92019041, 92019051, 92020003, 92020013, 92020023, 92020033, 92020043,
    92020053, 92020063, 92020073, 92020083, 92020093, 92025003, 92025013, 92025023,
    92025033, 92025043, 92025053, 92025063, 92025073, 92025083, 92030003, 92030013,
    92030023, 92030033, 92030043, 92030053, 92030063, 92030073, 92035003, 92035013,
    92035023, 92035033, 92035043, 92035053, 92035063, 92035073, 92040003, 92040013,
    92040023, 92040033, 92040043, 92040053, 92040063, 92045003, 92045013, 92045023,
    92045033, 92045043, 92045053, 92050003, 92050013, 92050023, 92050033, 92050043,
    92050053, 92055003, 92055013, 92055023, 92055033, 92055043, 92060003, 92060013,
    92060023, 92060033, 92065003, 92065013, 92065023, 92065033, 92070003, 92070013,
    92070023, 92075003, 92075013, 92080003, 92080013, 92085003, 93001004, 93003008,
    93006004, 93043008, 93043018, 93043028, 93043038, 93043048, 93043058, 94001003,
    94081003, 94086003, 96000009, 96001001, 96001011, 96001021, 96001031, 96001041,
    96001051, 96002003, 96003005, 96006001, 96006011, 96006021, 96006031, 96006041,
    96006051, 96011001, 96011011, 96011021, 96011031, 96011041, 96011051, 96012003,
    96012013, 96012023, 96012033, 96012043, 96012053, 96012063, 96012073, 96012083,
    96012093, 96016001, 96016011, 96016021, 96016031, 96016041, 96016051, 96017003,
    96017013, 96017023, 96017033, 96017043, 96017053, 96017063, 96017073, 96017083,
    96017093, 96021001, 96021011, 96021021, 96021031, 96021041, 96021051, 96022003,
    96022013, 96022023, 96022033, 96022043, 96022053, 96022063, 96022073, 96022083,
    96026001, 96026011, 96026021, 96026031, 96026041, 96026051, 96027003, 96027013,
    96027023, 96027033, 96027043, 96027053, 96027063, 96027073, 96031001, 96031011,
    96031021, 96031031, 96031041, 96031051, 96032003, 96032013, 96032023, 96032033,
    96032043, 96032053, 96032063, 96032073, 96036001, 96036011, 96036021, 96036031,
    96036041, 96036051, 96037003, 96037013, 96037023, 96037033, 96037043, 96037053,
    96037063, 96042003, 96042013, 96042023, 96042033, 96042043, 96042053, 96047003,
    96047013, 96047023, 96047033, 96047043, 96047053, 96052003, 96052013, 96052023,
    96052033, 96052043, 96057003, 96057013, 96057023, 96057033, 96062003, 96062013,
    96062023, 96062033, 96067003, 96067013, 96067023, 96072003, 96072013, 96077003,
    96077013, 96081001, 96086001, 96091001, 96091011, 96091021, 96091031, 96091041,
    96091051, 96091061, 96091071, 96091081, 96091091, 97000008, 97001000, 97003004,
    97009006, 97009016, 97009026, 97009036, 97009046, 97009096, 97010008, 97010018,
    97010028, 97010038, 97010048, 97010058, 97010068, 97010078, 97010088, 97010098,
    97014006, 97014016, 97014026, 97014036, 97014046, 97014096, 97015008, 97015018,
    97015028, 97015038, 97015048, 97015058, 97015068, 97015078, 97015088, 97019006,
    97019016, 97019026, 97019036, 97019046, 97020008, 97020018, 97020028, 97020038,
    97020048, 97020058, 97020068, 97020078, 97020088, 97025008, 97025018, 97025028,
    97025038, 97025048, 97025058, 97025068, 97025078, 97030008, 97030018, 97030028,
    97030038, 97030048, 97030058, 97030068, 97035008, 97035018, 97035028, 97035038,
    97035048, 97035058, 97035068, 97040008, 97040018, 97040028, 97040038, 97040048,
    97040058, 97045008, 97045018, 97045028, 97045038, 97045048, 97050008, 97050018,
    97050028, 97050038, 97050048, 97055008, 97055018, 97055028, 97055038, 97060008,
    97060018, 97060028, 97065008, 97065018, 97065028, 97070008, 97070018, 97075008,
    97080008, 98003003, 98007001, 98007011, 98007021, 98007031, 98007041, 98007051,
    98043003, 98043013, 98043023, 98043033, 98043043, 98043053
  }

\* overallScore = Math.round(c * 0.3 + r * 0.4 + m * 0.3), in double precision
overallScoreOf(avgConfidence, avgRelevance, avgCommunication) ==
  IF 1000000 * avgConfidence + 1000 * avgRelevance + avgCommunication
       \in DoubleTiesBelow
    THEN Round(3 * avgConfidence + 4 * avgRelevance + 3 * avgCommunication,
               10) - 1
    ELSE Round(3 * avgConfidence + 4 * avgRelevance + 3 * avgCommunication, 10)

\* The "strength" line as it would be if confidence were compared with
\* communication only.
strengthOfIgnoringRelevance(avgConfidence, avgRelevance, avgCommunication) ==
  IF avgConfidence > avgCommunication THEN "confidence"
  ELSE IF avgCommunication > avgRelevance THEN "communication"
  ELSE "relevance"

\* The metric the "strength" feedback line names.
strengthOf(avgConfidence, avgRelevance, avgCommunication) ==
  IF avgConfidence > avgCommunication /\ avgConfidence > avgRelevance
    THEN "confidence"
  ELSE IF avgCommunication > avgRelevance THEN "communication"
  ELSE "relevance"

\* The metric the "improvement" feedback line names.
improvementOf(avgConfidence, avgRelevance, avgCommunication) ==
  IF avgConfidence < avgCommunication /\ avgConfidence < avgRelevance
    THEN "confidence"
  ELSE IF avgCommunication < avgRelevance THEN "communication"
  ELSE "relevance"

(***************************************************************************)
(* Inputs of a session.                                                    *)
(***************************************************************************)
\* parseInt of a decimal numeral.
parseInt(s) == CHOOSE n \in 0..99 : ToString(n) = s

\* location.state.settings, as the setup page builds it.
SettingsInputs ==
  { [position |-> "Backend Developer", experience |-> "senior",
     duration |-> "15", questionCount |-> qc, skills |-> <<"Node.js">>]
      : qc \in {"4", "7"} }

\* The values Math.random() returns in a session, as <<numerator, denominator>>.
RandomDraws == { <<3, 4>> }

ExpressionSet == {expressions[k] : k \in 1..Len(expressions)}

HappyFace == [e \in ExpressionSet |-> IF e = "happy" THEN 80 ELSE 0]
NeutralFace == [e \in ExpressionSet |-> IF e = "neutral" THEN 100 ELSE 0]
FaintSadFace == [e \in ExpressionSet |-> IF e = "sad" THEN 20 ELSE 0]
NoFace == [e \in ExpressionSet |-> 0]

\* What a detectFace call that reached faceapi ends with: the first face of
\* a non-empty result, an empty result, or a rejection (time-out, exception).
DetectionResults ==
  { [kind |-> "face", face |-> f] : f \in {HappyFace, NeutralFace} }
    \cup { [kind |-> "none", face |-> NoFace],
           [kind |-> "error", face |-> NoFace] }

ShortAnswer ==
  <<"a", "s", "y", "n", "c", " ", "c", "a", "l", "l", "b", "a", "c", "k">>

LongAnswer ==
  <<"F", "i", "r", "s", "t", ",", " ", "t", "h", "e", " ", "e", "v", "e",
    "n", "t", " ", "l", "o", "o", "p", " ", "r", "u", "n", "s", " ", "e",
    "a", "c", "h", " ", "a", "s", "y", "n", "c", " ", "c", "a", "l", "l",
    "b", "a", "c", "k", ".", " ", "I", "t", " ", "i", "s", " ", "n", "o",
    "n", "-", "b", "l", "o", "c", "k", "i", "n", "g", ".">>

\* What the candidate types into the answer box.
TypedTexts == {ShortAnswer, LongAnswer}

\* An answer that mentions one key phrase of the second fallback question.
MemoAnswer ==
  <<"I", " ", "m", "e", "m", "o", " ", "i", "t">>

\* An answer under 50 characters with transition words, sentences and
\* technical terms.
PolishedShortAnswer ==
  <<"F", "i", "r", "s", "t", ",", " ", "t", "h", "e", " ", "h", "o", "o",
    "k", ".", " ", "S", "e", "c", "o", "n", "d", ",", " ", "t", "h", "e",
    " ", "a", "p", "i", ".", " ", "T", "h", "i", "r", "d", ",", " ", "p",
    "r", "o", "p", "s", ".">>

\* The same answer carried past 50 characters.
PolishedAnswer ==
  <<"F", "i", "r", "s", "t", ",", " ", "t", "h", "e", " ", "h", "o", "o",
    "k", ".", " ", "S", "e", "c", "o", "n", "d", ",", " ", "t", "h", "e",
    " ", "a", "p", "i", ".", " ", "T", "h", "i", "r", "d", ",", " ", "p",
    "r", "o", "p", "s", ".", " ", "F", "i", "n", "a", "l", "l", "y", ",",
    " ", "s", "t", "a", "t", "e", ".">>

\* An answer of repeated filler words.
FillerAnswer ==
  <<"u", "m", " ", "u", "m", " ", "u", "m", " ", "u", "m", " ", "u", "m",
    " ", "u", "m", " ", "u", "m", " ", "u", "m", " ", "u", "m", " ", "u",
    "m", " ", "u", "m", " ", "u", "m", " ", "u", "m", " ", "u", "m", " ",
    "u", "m", " ", "u", "m">>

\* The answers on which the two scores are examined.
ScoringTexts ==
  {MemoAnswer, PolishedShortAnswer, PolishedAnswer, FillerAnswer}

\* Every text the answer box holds in some session.
AnswerTexts == TypedTexts \cup ScoringTexts

\* A text typed before dictating, ending in a space.
LeadIn == <<"h", "i", " ">>

\* The results of a speech event from event.resultIndex on: one final
\* result, one interim result, two final results, a final and an interim.
SpeechEvents ==
  { <<[isFinal |-> TRUE, transcript |-> <<"o", "k">>]>>,
    <<[isFinal |-> FALSE, transcript |-> <<"o", "k">>]>>,
    <<[isFinal |-> TRUE, transcript |-> <<"o", "k">>],
      [isFinal |-> TRUE, transcript |-> <<"g", "o">>]>>,
    <<[isFinal |-> TRUE, transcript |-> <<"o", "k">>],
      [isFinal |-> FALSE, transcript |-> <<"g", "o">>]>> }

\* for (i = event.resultIndex; ...) if (event.results[i].isFinal)
\*   finalTranscript += event.results[i][0].transcript
RECURSIVE finalTranscriptFrom(_, _)
finalTranscriptFrom(results, i) ==
  IF i > Len(results) THEN <<>>
  ELSE (IF results[i].isFinal THEN results[i].transcript ELSE <<>>)
         \o finalTranscriptFrom(results, i + 1)

\* prevAnswer + spacer + finalTranscript
withFinalTranscript(prevAnswer, finalTranscript) ==
  LET spacer == IF prevAnswer # <<>> /\ prevAnswer[Len(prevAnswer)] # " "
                  THEN <<" ">> ELSE <<>>
  IN  prevAnswer \o spacer \o finalTranscript

\* The answers that dictation can build over the given ones in n events.
RECURSIVE DictatedOver(_, _)
DictatedOver(texts, n) ==
  IF n = 0 THEN texts
  ELSE DictatedOver(
         texts \cup
           { withFinalTranscript(t, finalTranscriptFrom(results, 1)) :
               t \in {x \in texts : Len(x) <= DictationLimit},
               results \in SpeechEvents },
         n - 1)

\* Every text the answer box holds after dictation.
SpokenTexts == DictatedOver({<<>>, LeadIn}, DictationLimit + 1)

\* How the POST of the report ends: with a response, or with an error of
\* the given name.
PostResults == {"ok", "AbortError", "Error"}

(***************************************************************************)
(* State.                                                                  *)
(***************************************************************************)
\* An array slot that was never assigned.
Undefined == <<"undefined">>

\* arr[i] = v on a JavaScript array (i counts from 0; a gap stays unassigned).
SetAt(arr, i, v) ==
  IF i < Len(arr) THEN [arr EXCEPT ![i + 1] = v]
  ELSE arr \o [k \in 1..(i - Len(arr)) |-> Undefined] \o <<v>>

\* The state of the component once it has mounted and its effects have run.
InitialState(settings) ==
  [ mounted |-> TRUE,
    currentQuestion |-> 0,
    remainingTime |-> parseInt(settings.duration) * 60,
    userAnswer |-> <<>>,
    speechToText |-> <<>>,
    isThinking |-> FALSE,
    answers |-> <<>>,
    interviewSettings |-> settings,
    loading |-> FALSE,
    questionsLoading |-> TRUE,
    error |-> "",
    facialExpression |-> "neutral",
    confidenceScore |-> 0,
    faceDetectionSuccess |-> 0,
    relevanceScore |-> 0,
    communicationScore |-> 0,
    confidenceHistory |-> <<>>,
    relevanceHistory |-> <<>>,
    communicationHistory |-> <<>>,
    sampleLog |-> <<>>,
    modelsLoaded |-> FALSE,
    cameraActive |-> TRUE,
    cameraInitialized |-> FALSE,
    cameraError |-> "",
    isListening |-> FALSE,
    isShuttingDown |-> FALSE,
    questions |-> <<>> ]

\* The question count of the first fetch: fetchQuestions runs in the first
\* render, where interviewSettings is still null.
DefaultQuestionCount == 4

\* The page right after it mounted with one of the given settings, and the
\* number of times b each bounded kind of event may still happen.
Start(settingsInputs, b) ==
  /\ \E settings \in settingsInputs : st = InitialState(settings)
  /\ det = [poll |-> FALSE, watchdog |-> FALSE, shut |-> FALSE,
            conf |-> 0, expr |-> "neutral"]
  /\ inflight = <<>>
  /\ io = [fetches |-> <<DefaultQuestionCount>>, loads |-> 1,
           initTimeout |-> TRUE,
           autoStarts |-> {[lis |-> FALSE, shut |-> FALSE]},
           recognizing |-> FALSE,
           speech |-> [lis |-> FALSE, shut |-> FALSE],
           onends |-> {}, restarts |-> {}]
  /\ ends = <<>>
  /\ budget = b

Init ==
  Start(SettingsInputs, [ends |-> MaxEnds, detect |-> MaxDetect,
                         type |-> MaxType, toggle |-> MaxToggle])

\* The whole state as one record, so that a handler and the effects it
\* triggers compose as functions.
World ==
  [st |-> st, det |-> det, inflight |-> inflight, io |-> io, ends |-> ends,
   budget |-> budget]

Becomes(w) ==
  /\ st' = w.st
  /\ det' = w.det
  /\ inflight' = w.inflight
  /\ io' = w.io
  /\ ends' = w.ends
  /\ budget' = w.budget

\* The Webcam element is rendered, so webcamRef.current is not null.
WebcamMounted(w) == w.st.mounted /\ w.st.cameraActive

(***************************************************************************)
(* Effects.                                                                *)
(***************************************************************************)
\* The scores of the texts a session can hold in the answer box, computed
\* once: evaluateCommunication of each text, and the relevance of each text
\* to each question.
communicationScores ==
  [t \in AnswerTexts \cup SpokenTexts |-> evaluateCommunication(t)]

relevanceScores ==
  [t \in AnswerTexts \cup SpokenTexts |->
     [q \in QuestionNames |-> relevanceOf(t, keyPhrasesOf(q))]]

\* The relevance / communication effect, deps [userAnswer, currentQuestion,
\* questions].
ScoringEffect(w) ==
  LET s == w.st IN
  IF s.userAnswer = <<>> \/ Len(s.questions) = 0
    THEN [w EXCEPT !.st.relevanceScore = 0, !.st.communicationScore = 0]
  ELSE IF s.currentQuestion >= Len(s.questions) THEN w
  ELSE [w EXCEPT
          !.st.communicationScore = communicationScores[s.userAnswer],
          !.st.relevanceScore =
             relevanceScores[s.userAnswer][s.questions[s.currentQuestion + 1]]]

\* One call of detectFace with the closure c it was created in, up to its
\* first await; dims says whether the video reports frame dimensions.
DetectCall(w, c, dims) ==
  IF c.shut \/ ~WebcamMounted(w) THEN w
  ELSE IF ~dims
    THEN IF c.conf # 0
           THEN [w EXCEPT !.st.confidenceScore = 0,
                          !.st.facialExpression = "unknown"]
           ELSE w
  ELSE [w EXCEPT !.inflight = Append(@, [conf |-> c.conf, expr |-> c.expr])]

\* The face-detection effect, deps [modelsLoaded, cameraActive,
\* webcamRef.current]: clean up the old intervals, then (if the models are
\* loaded and the camera is on) call detectFace and arm both intervals,
\* all with the detectFace of this render.
DetectionEffect(w, dims) ==
  LET off == [w EXCEPT !.det.poll = FALSE, !.det.watchdog = FALSE]
      c == [poll |-> TRUE, watchdog |-> TRUE, shut |-> w.st.isShuttingDown,
            conf |-> w.st.confidenceScore, expr |-> w.st.facialExpression]
  IN  IF w.st.modelsLoaded /\ w.st.cameraActive
        THEN DetectCall([off EXCEPT !.det = c], c, dims)
        ELSE off

\* The question count fetchQuestions reads in a render where
\* interviewSettings is set.
QuestionCountOf(settings) ==
  IF settings.questionCount # "" THEN parseInt(settings.questionCount)
  ELSE DefaultQuestionCount

\* speechRecognitionRef.current.stop(): a recognition that was started
\* stops, and its onend handler (with the closure io.speech it was created
\* in) is going to be called.
stopRecognition(w) ==
  IF w.io.recognizing
    THEN [w EXCEPT !.io.recognizing = FALSE,
                   !.io.onends = @ \cup {w.io.speech}]
    ELSE w

\* The settings effect, deps [location, cameraActive, cameraInitialized],
\* re-running: its clean-up, then its body, which creates a new recognition
\* object whose handlers see the isListening and isShuttingDown of this
\* render.
SettingsEffect(w) ==
  LET s == w.st IN
  [stopRecognition(w) EXCEPT
     !.io.speech = [lis |-> s.isListening, shut |-> s.isShuttingDown],
     !.st.remainingTime =
        IF s.interviewSettings.duration # ""
          THEN parseInt(s.interviewSettings.duration) * 60
          ELSE @,
     !.st.questionsLoading = TRUE,
     !.io.fetches = Append(@, QuestionCountOf(s.interviewSettings)),
     !.io.initTimeout = ~s.cameraInitialized /\ s.cameraActive,
     !.io.loads = @ + 1,
     !.io.autoStarts =
        @ \cup {[lis |-> s.isListening, shut |-> s.isShuttingDown]}]

\* What endInterview reads after its awaits: the values of the render it
\* was called from.
ClosureOf(s) ==
  [ currentQuestion |-> s.currentQuestion,
    userAnswer |-> s.userAnswer,
    answers |-> s.answers,
    confidenceScore |-> s.confidenceScore,
    relevanceScore |-> s.relevanceScore,
    communicationScore |-> s.communicationScore,
    isListening |-> s.isListening,
    confidenceHistory |-> s.confidenceHistory,
    relevanceHistory |-> s.relevanceHistory,
    communicationHistory |-> s.communicationHistory,
    questions |-> s.questions ]

NoReport ==
  [ confidence |-> 0, relevance |-> 0, communicationSkills |-> 0,
    score |-> 0, strength |-> "", improvement |-> "", responses |-> <<>>,
    confidenceHistory |-> <<>>, relevanceHistory |-> <<>>,
    communicationHistory |-> <<>> ]

\* endInterview called in render s, up to its first await: raise the
\* shutdown flag, disable the camera, clear the polling interval.  The
\* invocation remembers its caller (by) and whether the countdown has passed
\* a stride since it began (ticked).
BeginEnd(w, s, by) ==
  [w EXCEPT
     !.st.isShuttingDown = TRUE,
     !.st.cameraActive = FALSE,
     !.det.poll = FALSE,
     !.ends = Append(@, [pc |-> "grace", c |-> ClosureOf(s), saved |-> FALSE,
                         outcome |-> "", err |-> "", posted |-> FALSE,
                         report |-> NoReport, by |-> by, ticked |-> FALSE])]

\* The countdown effect, deps [remainingTime].
CountdownEffect(w) ==
  IF w.st.remainingTime <= 0 THEN BeginEnd(w, w.st, "countdown") ELSE w

\* navigate(...) away from the page: the component unmounts and the effect
\* clean-ups run.
Teardown(w) ==
  [stopRecognition(w) EXCEPT !.st.mounted = FALSE,
                             !.det.poll = FALSE, !.det.watchdog = FALSE,
                             !.io.initTimeout = FALSE]

\* The renders and effects that follow a handler which turned world old into
\* world w: each effect runs if one of its dependencies changed.
Commit(old, w, dims) ==
  LET w1 == IF w.st.remainingTime # old.st.remainingTime
              THEN CountdownEffect(w) ELSE w
      w2 == IF w1.st.cameraActive # old.st.cameraActive
                 \/ w1.st.cameraInitialized # old.st.cameraInitialized
              THEN SettingsEffect(w1) ELSE w1
      w3 == IF w2.st.modelsLoaded # old.st.modelsLoaded
                 \/ w2.st.cameraActive # old.st.cameraActive
              THEN DetectionEffect(w2, dims) ELSE w2
      w4 == IF w3.st.userAnswer # old.st.userAnswer
                 \/ w3.st.currentQuestion # old.st.currentQuestion
                 \/ w3.st.questions # old.st.questions
              THEN ScoringEffect(w3) ELSE w3
  IN  IF ~w.st.mounted
        THEN (IF old.st.mounted THEN Teardown(w) ELSE w)
        ELSE w4

(***************************************************************************)
(* Handlers, as functions of the world they run in.                        *)
(***************************************************************************)
\* setState on the mounted component; React drops it after the unmount.
WhenMounted(w, changed) == IF w.st.mounted THEN changed ELSE w

\* saveAnswerForCurrentQuestion() then saveCurrentMetrics(), reading the
\* render c: the answers array is replaced, the histories are appended to.
\* sampleLog keeps, for each sample, the question it was taken on and whether
\* setIsShuttingDown(true) had been called when it was appended.
SaveAnswerAndMetrics(w, c) ==
  [w EXCEPT
     !.st.answers = SetAt(c.answers, c.currentQuestion, c.userAnswer),
     !.st.confidenceHistory = Append(@, c.confidenceScore),
     !.st.relevanceHistory = Append(@, c.relevanceScore),
     !.st.communicationHistory = Append(@, c.communicationScore),
     !.st.sampleLog = Append(@, [question |-> c.currentQuestion,
                                 shut |-> w.st.isShuttingDown])]

\* nextQuestion() without its test for the last question: it always moves
\* to the next index.
nextQuestionAlwaysAdvancing(w) ==
  [SaveAnswerAndMetrics(w, w.st) EXCEPT !.st.currentQuestion = @ + 1,
                                        !.st.userAnswer = <<>>,
                                        !.st.speechToText = <<>>,
                                        !.st.isThinking = FALSE]

\* nextQuestion() without setUserAnswer("") and setSpeechToText(""): the
\* answer box keeps its text when the next question comes up.
nextQuestionKeepingAnswer(w) ==
  LET s == w.st
      saved == SaveAnswerAndMetrics(w, s)
  IN  IF s.currentQuestion < Len(s.questions) - 1
        THEN [saved EXCEPT !.st.currentQuestion = @ + 1,
                           !.st.isThinking = FALSE]
        ELSE BeginEnd(saved, s, "nextQuestion")

\* nextQuestion()
nextQuestion(w) ==
  LET s == w.st
      saved == SaveAnswerAndMetrics(w, s)
  IN  IF s.currentQuestion < Len(s.questions) - 1
        THEN [saved EXCEPT !.st.currentQuestion = @ + 1,
                           !.st.userAnswer = <<>>,
                           !.st.speechToText = <<>>,
                           !.st.isThinking = FALSE]
        ELSE BeginEnd(saved, s, "nextQuestion")

\* toggleCamera()
toggleCamera(w) ==
  IF w.st.cameraActive
    THEN [w EXCEPT !.st.cameraActive = FALSE,
                   !.st.cameraInitialized = FALSE]
    ELSE [w EXCEPT !.st.cameraError = "",
                   !.st.cameraInitialized = FALSE,
                   !.st.cameraActive = TRUE]

\* handleVideoInitialization()
handleVideoInitialization(w) ==
  [w EXCEPT !.st.cameraInitialized = TRUE, !.st.cameraError = ""]

\* The 10 s webcamInitTimeout of the settings effect firing.
webcamInitTimeout(w) ==
  [w EXCEPT !.io.initTimeout = FALSE,
            !.st.cameraError = "Camera initialization timed out",
            !.st.cameraActive = FALSE]

\* loadModels() completing.
loadModels(w, ok) ==
  LET done == [w EXCEPT !.io.loads = @ - 1] IN
  WhenMounted(done,
    IF ok THEN [done EXCEPT !.st.modelsLoaded = TRUE]
    ELSE [done EXCEPT !.st.error = "Could not load facial analysis models",
                      !.st.cameraActive = FALSE,
                      !.st.modelsLoaded = FALSE])

\* fetchQuestions() resuming after its simulated 1.5 s call.
fetchQuestions(w, r) ==
  LET done == [w EXCEPT !.io.fetches = Tail(@)] IN
  WhenMounted(done,
    [done EXCEPT
       !.st.questions =
          generateQuestionsForSkills(w.st.interviewSettings.skills,
                                     Head(w.io.fetches), r),
       !.st.questionsLoading = FALSE])

\* fetchQuestions() ending in its catch block: the default questions, cut to
\* the question count the call read.
fetchQuestionsFailed(w) ==
  LET done == [w EXCEPT !.io.fetches = Tail(@)] IN
  WhenMounted(done,
    [done EXCEPT
       !.st.error = "Failed to load interview questions",
       !.st.questions = SliceTo(getDefaultQuestions, Head(w.io.fetches)),
       !.st.questionsLoading = FALSE])

\* recognition.start() in one of the delayed starts: it throws on a
\* recognition that is already started, and setIsListening(true) is skipped.
startRecognition(w) ==
  IF w.io.recognizing THEN w
  ELSE WhenMounted([w EXCEPT !.io.recognizing = TRUE],
                   [w EXCEPT !.io.recognizing = TRUE,
                             !.st.isListening = TRUE])

\* The delayed automatic start of speech recognition, created in a render
\* where isListening = c.lis and isShuttingDown = c.shut.
autoStartSpeech(w, c) ==
  IF c.lis \/ c.shut
    THEN [w EXCEPT !.io.autoStarts = @ \ {c}]
    ELSE startRecognition([w EXCEPT !.io.autoStarts = @ \ {c}])

\* speechRecognition.onresult with the results of one event.
onresult(w, results) ==
  LET finalTranscript == finalTranscriptFrom(results, 1) IN
  IF finalTranscript = <<>> THEN w
  ELSE WhenMounted(w,
         [w EXCEPT
            !.st.speechToText = @ \o <<" ">> \o finalTranscript,
            !.st.userAnswer = withFinalTranscript(@, finalTranscript)])

\* speechRecognition.onerror of a recognition created in closure c: the
\* restart is scheduled 1 s later.
onerror(w, c) ==
  [WhenMounted(w, [w EXCEPT !.st.isListening = FALSE])
     EXCEPT !.io.restarts =
       @ \cup {[kind |-> "error", lis |-> c.lis, shut |-> c.shut]}]

\* speechRecognition.onend of a recognition created in closure c: the restart
\* is scheduled 500 ms later unless the closure saw the shutdown flag.
onend(w, c) ==
  IF c.shut THEN WhenMounted(w, [w EXCEPT !.st.isListening = FALSE])
  ELSE [WhenMounted(w, [w EXCEPT !.st.isListening = FALSE])
          EXCEPT !.io.restarts =
            @ \cup {[kind |-> "end", lis |-> c.lis, shut |-> c.shut]}]

\* The delayed restart t scheduled by onerror or onend fires.
restartSpeech(w, t) ==
  IF t.shut \/ (t.kind = "end" /\ t.lis)
    THEN [w EXCEPT !.io.restarts = @ \ {t}]
    ELSE startRecognition([w EXCEPT !.io.restarts = @ \ {t}])

\* stopListening() in a render where isListening = lis.
stopListening(w, lis) ==
  IF lis
    THEN WhenMounted(stopRecognition(w),
                     [stopRecognition(w) EXCEPT !.st.isListening = FALSE])
    ELSE w

\* handleThinkingTime()
handleThinkingTime(w) ==
  stopListening([w EXCEPT !.st.isThinking = TRUE], w.st.isListening)

\* detectFace after its await with a success counter that has no upper
\* limit.
detectFaceResultUncapped(w, c, res) ==
  IF res.kind = "face"
    THEN LET d == Dominant(res.face)
             expressionScore == expressionScoreOf(d.expr, d.value)
             newScore == smoothedScore(expressionScore, c.conf)
         IN  [w EXCEPT
                !.st.faceDetectionSuccess = @ + 1,
                !.st.facialExpression =
                   IF commitsExpression(d.value, c.expr) THEN d.expr ELSE @,
                !.st.confidenceScore = boundedScore(newScore)]
    ELSE [w EXCEPT
            !.st.confidenceScore = IF c.conf # 0 THEN 0 ELSE @,
            !.st.faceDetectionSuccess = Max(0, @ - 1),
            !.st.facialExpression = IF c.expr # "unknown" THEN "unknown" ELSE @]

\* detectFace after its await, in the closure c it started in, given what
\* the detection returned.
detectFaceResult(w, c, res) ==
  IF res.kind = "face"
    THEN LET d == Dominant(res.face)
             expressionScore == expressionScoreOf(d.expr, d.value)
             newScore == smoothedScore(expressionScore, c.conf)
         IN  [w EXCEPT
                !.st.faceDetectionSuccess = Min(@ + 1, 10),
                !.st.facialExpression =
                   IF commitsExpression(d.value, c.expr) THEN d.expr ELSE @,
                !.st.confidenceScore = boundedScore(newScore)]
    ELSE [w EXCEPT
            !.st.confidenceScore = IF c.conf # 0 THEN 0 ELSE @,
            !.st.faceDetectionSuccess = Max(0, @ - 1),
            !.st.facialExpression = IF c.expr # "unknown" THEN "unknown" ELSE @]

\* The i-th detectFace call in flight completes.
detectFaceDone(w, i, res) ==
  LET rest == [w EXCEPT
                 !.inflight = SubSeq(@, 1, i - 1) \o SubSeq(@, i + 1, Len(@))]
  IN  WhenMounted(rest, detectFaceResult(rest, w.inflight[i], res))

\* The values Math.floor(Math.random() * 31) - 15 is followed with.
RandomChanges == {-15, 0, 15}

\* The forced score of the confidence monitor without its limits of 20
\* and 100.
forcedScoreUnbounded(confidenceScore, randomChange) ==
  confidenceScore + randomChange

\* forcedScore of the confidence monitor.
forcedScore(confidenceScore, randomChange) ==
  Max(20, Min(100, confidenceScore + randomChange))

\* The confidence-monitoring effect, deps [cameraActive, cameraInitialized,
\* confidenceScore]: its 3 s interval compares the score of its render
\* with itself, so the fifth check after the effect ran (15 s without a
\* change of its dependencies) forces a score.
confidenceMonitor(w, randomChange) ==
  [w EXCEPT !.st.confidenceScore = forcedScore(@, randomChange)]

\* The responses of the report: the answers, padded with "" to one per
\* question.
responsesOf(answers, questions) ==
  IF Len(answers) = Len(questions) THEN answers
  ELSE answers \o [k \in 1..(Len(questions) - Len(answers)) |-> <<>>]

\* interviewData, built from the values of the render c.
interviewDataOf(c) ==
  LET avgConfidence == calculateAverage(c.confidenceHistory)
      avgRelevance == calculateAverage(c.relevanceHistory)
      avgCommunication == calculateAverage(c.communicationHistory)
  IN  [ confidence |-> avgConfidence,
        relevance |-> avgRelevance,
        communicationSkills |-> avgCommunication,
        score |-> overallScoreOf(avgConfidence, avgRelevance,
                                 avgCommunication),
        strength |-> strengthOf(avgConfidence, avgRelevance,
                                avgCommunication),
        improvement |-> improvementOf(avgConfidence, avgRelevance,
                                      avgCommunication),
        responses |-> responsesOf(c.answers, c.questions),
        confidenceHistory |-> c.confidenceHistory,
        relevanceHistory |-> c.relevanceHistory,
        communicationHistory |-> c.communicationHistory ]

\* endInterview resuming after the 300 ms delay: save the final answer and
\* the final metrics, stop the recording.
endAfterGrace(w, i) ==
  LET c == w.ends[i].c
      stopped == IF c.isListening THEN stopRecognition(w) ELSE w
      saved == SaveAnswerAndMetrics(stopped, c)
      shown == IF c.isListening
                 THEN [saved EXCEPT !.st.isListening = FALSE] ELSE saved
  IN  [WhenMounted(stopped, shown) EXCEPT !.ends[i].pc = "settle",
                                          !.ends[i].saved = w.st.mounted]

\* A catch block of endInterview: setError(msg), navigate to the fallback
\* results page, and the finally block.
endFailed(w, i, msg) ==
  [WhenMounted(w, [w EXCEPT !.st.error = msg, !.st.loading = FALSE,
                            !.st.mounted = FALSE])
     EXCEPT !.ends[i].pc = "done", !.ends[i].outcome = "SubmitFailed",
            !.ends[i].err = msg]

\* endInterview resuming after the 100 ms delay: build the report, then send
\* it if there is a token.
endBuild(w, i, token) ==
  LET c == w.ends[i].c
      shown == WhenMounted(w, [w EXCEPT !.st.loading = TRUE,
                                        !.st.error = ""])
      built == [shown EXCEPT !.ends[i].report = interviewDataOf(c)]
  IN  IF Len(c.answers) > Len(c.questions)
        THEN endFailed(w, i, "Invalid array length")
      ELSE IF ~token THEN endFailed(built, i, "Authentication required")
      ELSE [built EXCEPT !.ends[i].pc = "posting", !.ends[i].posted = TRUE]

\* The POST of the report settling in an endInterview whose inner catch
\* block is missing: a rejection ends the invocation with no message and no
\* navigation, only the finally block runs.
endPostUncaught(w, i, result) ==
  IF result = "ok"
    THEN [WhenMounted(w, [w EXCEPT !.st.loading = FALSE,
                                   !.st.mounted = FALSE])
            EXCEPT !.ends[i].pc = "done", !.ends[i].outcome = "Submitted"]
    ELSE [WhenMounted(w, [w EXCEPT !.st.loading = FALSE])
            EXCEPT !.ends[i].pc = "done"]

\* The POST of the report settling.
endPost(w, i, result) ==
  IF result = "ok"
    THEN [WhenMounted(w, [w EXCEPT !.st.loading = FALSE,
                                   !.st.mounted = FALSE])
            EXCEPT !.ends[i].pc = "done", !.ends[i].outcome = "Submitted"]
  ELSE IF result = "AbortError"
    THEN endFailed(w, i, "Saving interview timed out")
  ELSE endFailed(w, i, "Failed to save interview data")

(***************************************************************************)
(* Actions.                                                                *)
(***************************************************************************)
\* The number of seconds the model lets pass at once: the countdown of a
\* session is followed in TicksPerSession strides.
Stride == (parseInt(st.interviewSettings.duration) * 60) \div TicksPerSession

\* The endInterview invocations that have not settled see the countdown
\* pass a stride.
Ticked(invocations) ==
  [i \in DOMAIN invocations |->
     IF invocations[i].pc # "done"
       THEN [invocations[i] EXCEPT !.ticked = TRUE]
       ELSE invocations[i]]

\* The countdown of an effect that arms its interval even when the time is
\* up (no return after endInterview()): it keeps firing below zero.
TickPastZero ==
  /\ st.mounted
  /\ st.remainingTime <= Stride => budget.ends > 0
  /\ \A i \in DOMAIN ends : ends[i].pc # "done" => ~ends[i].ticked
  /\ Becomes(Commit(World,
                    [World EXCEPT !.st.remainingTime = @ - Stride,
                                  !.ends = Ticked(@),
                                  !.budget.ends =
                                     IF st.remainingTime <= Stride
                                       THEN @ - 1 ELSE @],
                    FALSE))

\* The 1 s countdown interval fires until the countdown has passed the next
\* stride (or the time is up).  An endInterview invocation settles within
\* 300 ms + 100 ms + the 15 s limit of its POST, which is less than a stride:
\* the countdown passes at most one stride while an invocation is under way.
Tick ==
  /\ st.mounted /\ st.remainingTime > 0
  /\ st.remainingTime <= Stride => budget.ends > 0
  /\ \A i \in DOMAIN ends : ends[i].pc # "done" => ~ends[i].ticked
  /\ Becomes(Commit(World,
                    [World EXCEPT !.st.remainingTime = Max(0, @ - Stride),
                                  !.ends = Ticked(@),
                                  !.budget.ends =
                                     IF st.remainingTime <= Stride
                                       THEN @ - 1 ELSE @],
                    FALSE))

\* The candidate edits the answer box.
TypeAnswer(t) ==
  /\ st.mounted /\ budget.type > 0
  /\ Becomes(Commit(World, [World EXCEPT !.st.userAnswer = t,
                                         !.budget.type = @ - 1], FALSE))

\* Click on "Next Question" / "Finish Interview".
NextQuestion ==
  /\ st.mounted /\ ~st.loading /\ ~st.questionsLoading
  /\ st.currentQuestion >= Len(st.questions) - 1 => budget.ends > 0
  /\ Becomes(Commit(World,
                    nextQuestion(
                      [World EXCEPT !.budget.ends =
                         IF st.currentQuestion >= Len(st.questions) - 1
                           THEN @ - 1 ELSE @]),
                    FALSE))

\* Click on "End Interview".
EndButton ==
  /\ st.mounted /\ ~st.loading /\ budget.ends > 0
  /\ Becomes(Commit(World,
                    BeginEnd([World EXCEPT !.budget.ends = @ - 1], st,
                             "endButton"),
                    FALSE))

\* Click on the camera toggle.
ToggleCamera(dims) ==
  /\ st.mounted /\ budget.toggle > 0
  /\ Becomes(Commit(World,
                    toggleCamera([World EXCEPT !.budget.toggle = @ - 1]),
                    dims))

\* The webcam delivers its stream (onUserMedia).
VideoInitialized ==
  /\ st.mounted /\ st.cameraActive /\ ~st.cameraInitialized
  /\ Becomes(Commit(World, handleVideoInitialization(World), FALSE))

\* The webcam did not initialise within 10 s.
WebcamInitTimeout ==
  /\ st.mounted /\ io.initTimeout
  /\ Becomes(Commit(World, webcamInitTimeout(World), FALSE))

\* A loadModels() call settles.
LoadModelsDone(ok, dims) ==
  /\ io.loads > 0
  /\ Becomes(Commit(World, loadModels(World, ok), dims))

\* A fetchQuestions() call resumes.
FetchQuestionsDone(r) ==
  /\ io.fetches # <<>>
  /\ Becomes(Commit(World, fetchQuestions(World, r), FALSE))

\* A fetchQuestions() call fails.
FetchQuestionsFailed ==
  /\ io.fetches # <<>>
  /\ Becomes(Commit(World, fetchQuestionsFailed(World), FALSE))

\* A delayed automatic start of speech recognition fires.
AutoStartSpeech(c) ==
  /\ c \in io.autoStarts
  /\ Becomes(Commit(World, autoStartSpeech(World, c), FALSE))

\* The running recognition delivers a result event.
SpeechResult(results) ==
  /\ io.recognizing /\ Len(st.userAnswer) <= DictationLimit
  /\ Becomes(Commit(World, onresult(World, results), FALSE))

\* The browser ends a running recognition, with an error event before the
\* end event or without.
SpeechEnds(error) ==
  /\ io.recognizing
  /\ Becomes(Commit(World,
                    onend(IF error
                            THEN onerror([World EXCEPT
                                            !.io.recognizing = FALSE],
                                         io.speech)
                            ELSE [World EXCEPT !.io.recognizing = FALSE],
                          io.speech),
                    FALSE))

\* The end event of a recognition that was stopped is delivered.
RecognitionStopped(c) ==
  /\ c \in io.onends
  /\ Becomes(Commit(World, onend([World EXCEPT !.io.onends = @ \ {c}], c),
                    FALSE))

\* A delayed restart of speech recognition fires.
RestartSpeech(t) ==
  /\ t \in io.restarts
  /\ Becomes(Commit(World, restartSpeech(World, t), FALSE))

\* Click on "I need a moment to think" (disabled while thinking).
ThinkingTime ==
  /\ st.mounted /\ ~st.isThinking
  /\ Becomes(Commit(World, handleThinkingTime(World), FALSE))

\* The 500 ms polling interval fires.
Poll(dims) ==
  /\ det.poll /\ budget.detect > 0
  /\ Becomes(Commit(World,
                    DetectCall([World EXCEPT !.budget.detect = @ - 1],
                               det, dims),
                    FALSE))

\* The watchdog as it would be if it ran only while the polling interval
\* is not armed.
WatchdogWhenPollIsOff(dims) ==
  /\ det.watchdog /\ ~det.poll /\ inflight # <<>> /\ budget.detect > 0
  /\ Becomes(Commit(World,
                    DetectCall([World EXCEPT !.budget.detect = @ - 1],
                               det, dims),
                    FALSE))

\* The 3 s watchdog interval fires and finds no call completed for 3 s.
Watchdog(dims) ==
  /\ det.watchdog /\ inflight # <<>> /\ budget.detect > 0
  /\ Becomes(Commit(World,
                    DetectCall([World EXCEPT !.budget.detect = @ - 1],
                               det, dims),
                    FALSE))

\* A detectFace call in flight completes.
DetectDone(i, res) ==
  /\ i \in 1..Len(inflight)
  /\ Becomes(Commit(World, detectFaceDone(World, i, res), FALSE))

\* The confidence monitor's interval fires for the fifth time since its
\* effect ran.
ConfidenceMonitor(randomChange) ==
  /\ st.mounted /\ st.cameraActive /\ st.cameraInitialized
  /\ Becomes(Commit(World, confidenceMonitor(World, randomChange), FALSE))

\* An endInterview invocation that resumes after its 300 ms delay only once
\* no detectFace call is in flight.
EndGraceAfterDetections(i) ==
  /\ i \in 1..Len(ends) /\ ends[i].pc = "grace"
  /\ inflight = <<>>
  /\ Becomes(Commit(World, endAfterGrace(World, i), FALSE))

\* An endInterview invocation resumes after its 300 ms delay.
EndGrace(i) ==
  /\ i \in 1..Len(ends) /\ ends[i].pc = "grace"
  /\ Becomes(Commit(World, endAfterGrace(World, i), FALSE))

\* An endInterview invocation resumes after its 100 ms delay.
EndBuild(i, token) ==
  /\ i \in 1..Len(ends) /\ ends[i].pc = "settle"
  /\ Becomes(Commit(World, endBuild(World, i, token), FALSE))

\* The POST of an endInterview invocation settles.
EndPost(i, result) ==
  /\ i \in 1..Len(ends) /\ ends[i].pc = "posting"
  /\ Becomes(Commit(World, endPost(World, i, result), FALSE))

EndStep ==
  \E i \in DOMAIN ends :
    \/ EndGrace(i)
    \/ \E token \in BOOLEAN : EndBuild(i, token)
    \/ \E result \in PostResults : EndPost(i, result)

Next ==
  \/ Tick
  \/ \E t \in TypedTexts : TypeAnswer(t)
  \/ NextQuestion
  \/ EndButton
  \/ \E dims \in BOOLEAN : ToggleCamera(dims)
  \/ VideoInitialized
  \/ WebcamInitTimeout
  \/ \E ok \in BOOLEAN, dims \in BOOLEAN : LoadModelsDone(ok, dims)
  \/ \E r \in RandomDraws : FetchQuestionsDone(r)
  \/ FetchQuestionsFailed
  \/ \E c \in io.autoStarts : AutoStartSpeech(c)
  \/ \E results \in SpeechEvents : SpeechResult(results)
  \/ \E error \in BOOLEAN : SpeechEnds(error)
  \/ \E c \in io.onends : RecognitionStopped(c)
  \/ \E t \in io.restarts : RestartSpeech(t)
  \/ ThinkingTime
  \/ \E dims \in BOOLEAN : Poll(dims)
  \/ \E dims \in BOOLEAN : Watchdog(dims)
  \/ \E i \in DOMAIN inflight, res \in DetectionResults : DetectDone(i, res)
  \/ \E randomChange \in RandomChanges : ConfidenceMonitor(randomChange)
  \/ EndStep

Spec == Init /\ [][Next]_vars

FourQuestionSettings ==
  {settings \in SettingsInputs : settings.questionCount = "4"}

\* The sessions in which the camera delivers its stream but the models and
\* the speech recogniser stay silent.
SessionNext ==
  \/ Tick
  \/ \E t \in TypedTexts : TypeAnswer(t)
  \/ NextQuestion
  \/ EndButton
  \/ VideoInitialized
  \/ \E r \in RandomDraws : FetchQuestionsDone(r)
  \/ EndStep

SessionInit ==
  Start(FourQuestionSettings,
        [ends |-> SessionEnds, detect |-> 0, type |-> SessionTypes,
         toggle |-> 0])

SessionSpec == SessionInit /\ [][SessionNext]_vars

\* The sessions in which the candidate moves through the questions without
\* answering, and the countdown does not run out.
NavigationNext ==
  \/ NextQuestion
  \/ EndButton
  \/ VideoInitialized
  \/ \E r \in RandomDraws : FetchQuestionsDone(r)
  \/ EndStep

NavigationInit ==
  Start(SettingsInputs, [ends |-> NavigationEnds, detect |-> 0, type |-> 0,
                         toggle |-> 0])

NavigationSpec == NavigationInit /\ [][NavigationNext]_vars

\* The sessions in which the models load and the camera is watched, while
\* the candidate leaves the questions alone.
PerceptionNext ==
  \/ Tick
  \/ EndButton
  \/ \E dims \in BOOLEAN : ToggleCamera(dims)
  \/ VideoInitialized
  \/ \E ok \in BOOLEAN, dims \in BOOLEAN : LoadModelsDone(ok, dims)
  \/ \E dims \in BOOLEAN : Poll(dims)
  \/ \E dims \in BOOLEAN : Watchdog(dims)
  \/ \E i \in DOMAIN inflight, res \in DetectionResults : DetectDone(i, res)
  \/ EndStep

PerceptionInit ==
  Start(FourQuestionSettings,
        [ends |-> PerceptionEnds, detect |-> PerceptionDetects, type |-> 0,
         toggle |-> PerceptionToggles])

PerceptionSpec == PerceptionInit /\ [][PerceptionNext]_vars

\* The sessions that are ended while the camera is watched: the models load,
\* detections start and may or may not return, the session is ended from the
\* End button or by the countdown.  The timers of an endInterview invocation
\* fire and its POST settles or is aborted after 15 s, so its steps are
\* taken; nothing makes a detection return.
ShutdownNext ==
  \/ Tick
  \/ EndButton
  \/ \E ok \in BOOLEAN, dims \in BOOLEAN : LoadModelsDone(ok, dims)
  \/ \E i \in DOMAIN inflight, res \in DetectionResults : DetectDone(i, res)
  \/ EndStep

ShutdownInit ==
  Start(FourQuestionSettings,
        [ends |-> ShutdownEnds, detect |-> 0, type |-> 0, toggle |-> 0])

ShutdownSpec ==
  ShutdownInit /\ [][ShutdownNext]_vars /\ WF_vars(EndStep)

\* The sessions that run out of time: the countdown runs while the camera
\* initialises or times out, and the End button may be clicked as well; the
\* POST of the report may stay pending while the countdown goes on.
CountdownNext ==
  \/ Tick
  \/ EndButton
  \/ VideoInitialized
  \/ WebcamInitTimeout
  \/ EndStep

CountdownInit ==
  Start(FourQuestionSettings,
        [ends |-> CountdownEnds, detect |-> 0, type |-> 0, toggle |-> 0])

CountdownSpec == CountdownInit /\ [][CountdownNext]_vars

\* The sessions in which the candidate speaks: recognition starts by itself,
\* ends or fails and is restarted, the candidate asks for thinking time, the
\* camera initialises, the countdown runs, and the session is ended from the
\* End button or by the countdown.
SpeechNext ==
  \/ Tick
  \/ EndButton
  \/ VideoInitialized
  \/ \E c \in io.autoStarts : AutoStartSpeech(c)
  \/ \E error \in BOOLEAN : SpeechEnds(error)
  \/ \E c \in io.onends : RecognitionStopped(c)
  \/ \E t \in io.restarts : RestartSpeech(t)
  \/ ThinkingTime
  \/ EndStep

SpeechInit ==
  Start(FourQuestionSettings,
        [ends |-> SpeechSessionEnds, detect |-> 0, type |-> 0, toggle |-> 0])

SpeechSpec == SpeechInit /\ [][SpeechNext]_vars

\* The sessions in which the questions are fetched again and again, and a
\* fetch may fail: the camera initialises or times out, the candidate moves
\* through the questions and ends the session.
QuestionsNext ==
  \/ NextQuestion
  \/ EndButton
  \/ VideoInitialized
  \/ WebcamInitTimeout
  \/ \E r \in RandomDraws : FetchQuestionsDone(r)
  \/ FetchQuestionsFailed
  \/ EndStep

QuestionsInit ==
  Start(SettingsInputs, [ends |-> QuestionsEnds, detect |-> 0, type |-> 0,
                         toggle |-> 0])

QuestionsSpec == QuestionsInit /\ [][QuestionsNext]_vars

\* The scores a sample of each metric takes in ReportSpec.
ConfidenceSamples == {0, 57, 100}
RelevanceSamples == {0, 40}
CommunicationSamples == {0, 48, 100}

\* The sequences of length n over the set samples.
HistoriesOf(samples, n) == [1..n -> samples]

\* The page after n questions were answered with nothing typed and left with
\* Next, the three scores having taken the given values at each click.
AfterQuestions(settings, questionList, n, ch, rh, mh) ==
  [InitialState(settings) EXCEPT
     !.questions = questionList,
     !.questionsLoading = FALSE,
     !.currentQuestion = n,
     !.answers = [k \in 1..n |-> <<>>],
     !.confidenceHistory = ch,
     !.relevanceHistory = rh,
     !.communicationHistory = mh,
     !.sampleLog = [k \in 1..n |-> [question |-> k - 1, shut |-> FALSE]]]

\* The sessions whose report is built from histories of up to MaxHistory
\* samples: the questions are loaded, some of them were answered, and the
\* session is ended with the End button.
ReportNext ==
  \/ EndButton
  \/ EndStep

ReportInit ==
  /\ \E settings \in FourQuestionSettings, r \in RandomDraws,
        n \in 0..MaxHistory :
       \E ch \in HistoriesOf(ConfidenceSamples, n),
          rh \in HistoriesOf(RelevanceSamples, n),
          mh \in HistoriesOf(CommunicationSamples, n) :
         st = AfterQuestions(settings,
                             generateQuestionsForSkills(
                               settings.skills, DefaultQuestionCount, r),
                             n, ch, rh, mh)
  /\ det = [poll |-> FALSE, watchdog |-> FALSE, shut |-> FALSE,
            conf |-> 0, expr |-> "neutral"]
  /\ inflight = <<>>
  /\ io = [fetches |-> <<>>, loads |-> 1, initTimeout |-> TRUE,
           autoStarts |-> {[lis |-> FALSE, shut |-> FALSE]},
           recognizing |-> FALSE,
           speech |-> [lis |-> FALSE, shut |-> FALSE],
           onends |-> {}, restarts |-> {}]
  /\ ends = <<>>
  /\ budget = [ends |-> ReportEnds, detect |-> 0, type |-> 0, toggle |-> 0]

ReportSpec == ReportInit /\ [][ReportNext]_vars

\* The sessions in which the answers are scored: the questions arrive or
\* the fetch fails, the candidate types any of the answers and moves through
\* the questions.
ScoringNext ==
  \/ \E t \in AnswerTexts : TypeAnswer(t)
  \/ NextQuestion
  \/ \E r \in RandomDraws : FetchQuestionsDone(r)
  \/ FetchQuestionsFailed

ScoringInit ==
  Start(FourQuestionSettings,
        [ends |-> 0, detect |-> 0, type |-> ScoringTypes, toggle |-> 0])

ScoringSpec == ScoringInit /\ [][ScoringNext]_vars

\* The sessions in which the face analysis fails while the interview goes
\* on: the models load or fail to load, detections time out, throw or find
\* no frame dimensions, the questions arrive, the candidate moves through
\* them and the countdown runs.
FailureNext ==
  \/ Tick
  \/ NextQuestion
  \/ VideoInitialized
  \/ \E r \in RandomDraws : FetchQuestionsDone(r)
  \/ \E ok \in BOOLEAN, dims \in BOOLEAN : LoadModelsDone(ok, dims)
  \/ \E dims \in BOOLEAN : Poll(dims)
  \/ \E dims \in BOOLEAN : Watchdog(dims)
  \/ \E i \in DOMAIN inflight, res \in DetectionResults : DetectDone(i, res)

FailureInit ==
  Start(FourQuestionSettings,
        [ends |-> 0, detect |-> FailureDetects, type |-> 0, toggle |-> 0])

FailureSpec == FailureInit /\ [][FailureNext]_vars

\* location.state.settings asking for no question at all: the setup page
\* offers 4, 7 and 10, the interview page takes whatever count it is given.
ZeroQuestionSettings ==
  { [position |-> "Backend Developer", experience |-> "senior",
     duration |-> "15", questionCount |-> "0", skills |-> <<"Node.js">>] }

\* The sessions in which the page comes to hold an empty list of questions:
\* the questions are fetched with the count of the settings once the camera
\* has initialised or timed out, and the candidate clicks Next.
EmptySetNext ==
  \/ Tick
  \/ NextQuestion
  \/ VideoInitialized
  \/ WebcamInitTimeout
  \/ \E r \in RandomDraws : FetchQuestionsDone(r)
  \/ EndStep

EmptySetInit ==
  Start(ZeroQuestionSettings,
        [ends |-> EmptySetEnds, detect |-> 0, type |-> 0, toggle |-> 0])

EmptySetSpec == EmptySetInit /\ [][EmptySetNext]_vars

\* The page while the camera is watched: the questions and the models are
\* loaded, the camera has initialised, the detection effect has armed both
\* intervals in a render with confidence 0 and expression neutral, and the
\* first hits detections (if any) found a happy face.
WatchingAfter(settings, questionList, hits) ==
  LET base == [st |-> [InitialState(settings) EXCEPT
                         !.questions = questionList,
                         !.questionsLoading = FALSE,
                         !.modelsLoaded = TRUE,
                         !.cameraInitialized = TRUE],
               det |-> [poll |-> TRUE, watchdog |-> TRUE, shut |-> FALSE,
                        conf |-> 0, expr |-> "neutral"]]
      seen == detectFaceResult(base, base.det,
                               [kind |-> "face", face |-> HappyFace])
  IN  IF hits = 0 THEN base
      ELSE [seen EXCEPT !.st.faceDetectionSuccess = Min(hits, 10)]

\* The results of DetectionResults and a face whose strongest expression
\* stays under the 0.3 the page asks of a change of expression.
ExpressionResults ==
  DetectionResults \cup {[kind |-> "face", face |-> FaintSadFace]}

\* The sessions in which detections complete in any order, starting after
\* any number of successful detections.
FaceHitsNext ==
  \/ \E dims \in BOOLEAN : Poll(dims)
  \/ \E dims \in BOOLEAN : Watchdog(dims)
  \/ \E i \in DOMAIN inflight, res \in ExpressionResults : DetectDone(i, res)

FaceHitsInit ==
  /\ \E settings \in FourQuestionSettings, r \in RandomDraws,
        hits \in 0..10 :
       LET w == WatchingAfter(settings,
                              generateQuestionsForSkills(
                                settings.skills, DefaultQuestionCount, r),
                              hits)
       IN  st = w.st /\ det = w.det
  /\ inflight = <<>>
  /\ io = [fetches |-> <<>>, loads |-> 0, initTimeout |-> FALSE,
           autoStarts |-> {}, recognizing |-> FALSE,
           speech |-> [lis |-> FALSE, shut |-> FALSE],
           onends |-> {}, restarts |-> {}]
  /\ ends = <<>>
  /\ budget = [ends |-> 0, detect |-> FaceHitsDetects, type |-> 0,
               toggle |-> 0]

FaceHitsSpec == FaceHitsInit /\ [][FaceHitsNext]_vars

\* The sessions in which detections hang while the camera is watched: the
\* polling interval and the watchdog start calls, calls may or may not
\* return, the camera is toggled and the End button is clicked; the
\* sessions are followed up to the 300 ms delay of endInterview.  The
\* watchdog is a timer, so it fires whenever it stays due.
WatchdogNext ==
  \/ \E dims \in BOOLEAN : Poll(dims)
  \/ \E dims \in BOOLEAN : Watchdog(dims)
  \/ \E i \in DOMAIN inflight, res \in DetectionResults : DetectDone(i, res)
  \/ \E dims \in BOOLEAN : ToggleCamera(dims)
  \/ VideoInitialized
  \/ \E r \in RandomDraws : FetchQuestionsDone(r)
  \/ EndButton

WatchdogInit ==
  /\ \E settings \in FourQuestionSettings, r \in RandomDraws,
        hits \in 0..1 :
       LET w == WatchingAfter(settings,
                              generateQuestionsForSkills(
                                settings.skills, DefaultQuestionCount, r),
                              hits)
       IN  st = w.st /\ det = w.det
  /\ inflight = <<>>
  /\ io = [fetches |-> <<>>, loads |-> 0, initTimeout |-> FALSE,
           autoStarts |-> {}, recognizing |-> FALSE,
           speech |-> [lis |-> FALSE, shut |-> FALSE],
           onends |-> {}, restarts |-> {}]
  /\ ends = <<>>
  /\ budget = [ends |-> WatchdogEnds, detect |-> WatchdogDetects, type |-> 0,
               toggle |-> WatchdogToggles]

WatchdogSpec ==
  /\ WatchdogInit /\ [][WatchdogNext]_vars
  /\ WF_vars(\E dims \in BOOLEAN : Watchdog(dims))

\* The sessions in which the confidence monitor runs beside the detection
\* loop while the candidate moves through the questions.
MonitorNext ==
  \/ NextQuestion
  \/ \E dims \in BOOLEAN : Poll(dims)
  \/ \E i \in DOMAIN inflight, res \in DetectionResults : DetectDone(i, res)
  \/ \E randomChange \in RandomChanges : ConfidenceMonitor(randomChange)

MonitorInit ==
  /\ \E settings \in FourQuestionSettings, r \in RandomDraws,
        hits \in 0..1 :
       LET w == WatchingAfter(settings,
                              generateQuestionsForSkills(
                                settings.skills, DefaultQuestionCount, r),
                              hits)
       IN  st = w.st /\ det = w.det
  /\ inflight = <<>>
  /\ io = [fetches |-> <<>>, loads |-> 0, initTimeout |-> FALSE,
           autoStarts |-> {}, recognizing |-> FALSE,
           speech |-> [lis |-> FALSE, shut |-> FALSE],
           onends |-> {}, restarts |-> {}]
  /\ ends = <<>>
  /\ budget = [ends |-> 0, detect |-> MonitorDetects, type |-> 0,
               toggle |-> 0]

MonitorSpec == MonitorInit /\ [][MonitorNext]_vars

\* The sessions in which the candidate dictates: recognition starts by
\* itself and delivers results, the candidate may type a few words first
\* and moves on to the next question, and the questions arrive.
DictationNext ==
  \/ \E c \in io.autoStarts : AutoStartSpeech(c)
  \/ \E r \in RandomDraws : FetchQuestionsDone(r)
  \/ TypeAnswer(LeadIn)
  \/ NextQuestion
  \/ \E results \in SpeechEvents : SpeechResult(results)

DictationInit ==
  Start(FourQuestionSettings,
        [ends |-> 0, detect |-> 0, type |-> DictationTypes, toggle |-> 0])

DictationSpec == DictationInit /\ [][DictationNext]_vars

(***************************************************************************)
(* Properties of dictation.                                                *)
(***************************************************************************)
\* The text after each final result from the i-th on was added to it on
\* its own, with a space before it where the text so far needs one.
RECURSIVE WithEachFinalFragment(_, _, _)
WithEachFinalFragment(text, results, i) ==
  IF i > Len(results) THEN text
  ELSE WithEachFinalFragment(
         IF results[i].isFinal
           THEN withFinalTranscript(text, results[i].transcript)
           ELSE text,
         results, i + 1)

\* C34: a final fragment of the transcript is added to the answer as it
\* is, after one space when the answer so far is not empty and does not end
\* in a space; interim fragments leave the answer as it is.
C34_FinalFragmentsAreAppended ==
  [][\A results \in SpeechEvents :
       (st.mounted /\ SpeechResult(results)) =>
         st'.userAnswer = WithEachFinalFragment(st.userAnswer, results, 1)]_vars

\* location.state.settings with one skill, with four skills, and with a
\* skill the question bank does not know, for 1, 4 and 10 questions.
GenerationSettings ==
  { [position |-> "Backend Developer", experience |-> "senior",
     duration |-> "15", questionCount |-> qc, skills |-> sk]
      : qc \in {"1", "4", "10"},
        sk \in { <<"Node.js">>,
                 <<"React", "JavaScript", "TypeScript", "Node.js">>,
                 <<"Rust">> } }

\* The values Math.random() returns while questions are generated.
GenerationDraws == { <<0, 1>>, <<1, 2>>, <<3, 4>> }

\* The sessions in which the questions are generated: at mount for the
\* default count, and again for the count of the settings once the camera
\* has initialised.
GenerationNext ==
  \/ VideoInitialized
  \/ \E r \in GenerationDraws : FetchQuestionsDone(r)

GenerationInit ==
  Start(GenerationSettings,
        [ends |-> 0, detect |-> 0, type |-> 0, toggle |-> 0])

GenerationSpec == GenerationInit /\ [][GenerationNext]_vars

(***************************************************************************)
(* Properties of the end of a session.                                     *)
(***************************************************************************)
\* C1: endInterview is idempotent: however many times it is invoked in a
\* session (End button, countdown, Next on the last question), one terminal
\* sample is appended to the histories and the report is sent once.
C1_EndIsIdempotent ==
  /\ Cardinality({i \in DOMAIN ends : ends[i].saved}) <= 1
  /\ Cardinality({i \in DOMAIN ends : ends[i].posted}) <= 1

\* C2: samples are appended once per question: in a session ended by a
\* single endInterview invocation, once the report is built each history
\* holds (index of the current question + 1) samples, so N samples after
\* advancing through all N questions.
C2_HistoryLengthTracksCursor ==
  \A i \in DOMAIN ends :
    (Len(ends) = 1 /\ ends[i].pc \in {"posting", "done"})
      => /\ Len(st.confidenceHistory) = st.currentQuestion + 1
         /\ Len(st.relevanceHistory) = st.currentQuestion + 1
         /\ Len(st.communicationHistory) = st.currentQuestion + 1

\* C3: the averages of a report that is sent are the rounded means of the
\* histories the page holds once endInterview has appended the terminal
\* sample (checked in the sessions with a single endInterview invocation).
C3_ReportAveragesCoverHistory ==
  \A i \in DOMAIN ends :
    (Len(ends) = 1 /\ ends[i].posted)
      => /\ ends[i].report.confidence = calculateAverage(st.confidenceHistory)
         /\ ends[i].report.relevance = calculateAverage(st.relevanceHistory)
         /\ ends[i].report.communicationSkills =
              calculateAverage(st.communicationHistory)

\* C4: nextQuestion on the last question starts endInterview and leaves the
\* index alone, and whenever there are questions the index of the current
\* question is one of theirs.
C4_CursorStaysInBounds ==
  /\ [](Len(st.questions) > 0
          => st.currentQuestion \in 0..(Len(st.questions) - 1))
  /\ [][(NextQuestion /\ st.currentQuestion >= Len(st.questions) - 1)
          => (st'.currentQuestion = st.currentQuestion
                /\ Len(ends') = Len(ends) + 1)]_vars

\* Next was clicked on the last of seven questions: the sample is saved and
\* endInterview is waiting out its first delay.
C4_NextOnLastQuestion ==
  /\ Len(st.questions) = 7
  /\ st.currentQuestion = 6
  /\ Len(st.confidenceHistory) = 7
  /\ Len(ends) = 1 /\ ends[1].pc = "grace"

(***************************************************************************)
(* Properties of the perception loop.                                      *)
(***************************************************************************)
\* C5: while the page is shutting down or the camera is disabled, the
\* confidence score, the facial expression and the detection counter do not
\* change: a detectFace call that returns then is discarded.
C5_NoPerceptionAfterShutdown ==
  [][((st.isShuttingDown \/ ~st.cameraActive)
        /\ (st'.isShuttingDown \/ ~st'.cameraActive))
       => /\ st'.confidenceScore = st.confidenceScore
          /\ st'.facialExpression = st.facialExpression
          /\ st'.faceDetectionSuccess = st.faceDetectionSuccess]_vars

\* C6: a detection that returns no face leaves the confidence score at 0 and
\* the facial expression at "unknown", whatever they were before.
C6_NoFaceResetsConfidence ==
  [][\A i \in DOMAIN inflight :
       (st.mounted /\ DetectDone(i, [kind |-> "none", face |-> NoFace]))
         => (st'.confidenceScore = 0 /\ st'.facialExpression = "unknown")]_vars

\* C7: a detection that returns a face with expression score r turns the
\* confidence score p the page holds into clamp(round(0.7 r + 0.3 p), 10,
\* 100), or into clamp(r, 10, 100) when p is 0.
C7_SmoothingUsesHeldConfidence ==
  [][\A i \in DOMAIN inflight, res \in DetectionResults :
       (st.mounted /\ res.kind = "face" /\ DetectDone(i, res))
         => LET d == Dominant(res.face) IN
            st'.confidenceScore =
              boundedScore(smoothedScore(expressionScoreOf(d.expr, d.value),
                                         st.confidenceScore))]_vars

\* C8: once endInterview has been invoked, the countdown does not tick and
\* neither the polling interval nor the watchdog calls detectFace.
C8_TimersStopAtEnd ==
  [][ends # <<>>
       => (st'.remainingTime >= st.remainingTime
             /\ budget'.detect = budget.detect)]_vars

C10_ShutdownIgnoresDetection ==
  /\ \A i \in 1..ShutdownEnds :
       []((i \in DOMAIN ends /\ inflight # <<>>)
            => <>(i \in DOMAIN ends /\ ends[i].pc = "done"))
  /\ [](\A i \in DOMAIN ends :
          ends[i].posted => ends[i].report = interviewDataOf(ends[i].c))

\* An invocation sent its report and ended while a detectFace call was still
\* in flight.
C10_EndedWithDetectionInFlight ==
  /\ inflight # <<>>
  /\ \E i \in DOMAIN ends :
       ends[i].pc = "done" /\ ends[i].saved /\ ends[i].posted

(***************************************************************************)
(* Properties of the order of shutdown, the countdown and speech capture.  *)
(***************************************************************************)
\* C11: the steps of endInterview happen in order: the shutdown flag is
\* raised, the camera is disabled and the polling interval is cleared when an
\* invocation begins, the terminal sample is appended only after the 300 ms
\* grace period, and no sample of the question the session ends on is
\* appended before the shutdown flag was raised.
C11_EndStepsInOrder ==
  /\ [][Len(ends') > Len(ends)
          => (st'.isShuttingDown /\ ~st'.cameraActive /\ ~det'.poll)]_vars
  /\ [][\A i \in DOMAIN ends :
          (~ends[i].saved /\ ends'[i].saved)
            => (ends[i].pc = "grace" /\ st.isShuttingDown)]_vars
  /\ [](ends # <<>> =>
         \A k \in DOMAIN st.sampleLog :
           st.sampleLog[k].question = st.currentQuestion
             => st.sampleLog[k].shut)

\* C12: the countdown triggers endInterview exactly once per session: the
\* step in which the countdown reaches zero starts one invocation, and no
\* session holds two invocations started by the countdown, however long the
\* POST of the report stays pending and although endInterview changes the
\* camera state (which re-runs the settings effect and resets the countdown).
C12_CountdownEndsOnce ==
  /\ [][(Tick /\ st.remainingTime <= Stride)
          => /\ Len(ends') = Len(ends) + 1
             /\ ends'[Len(ends')].by = "countdown"]_vars
  /\ [](Cardinality({i \in DOMAIN ends : ends[i].by = "countdown"}) <= 1)

\* C12 witness: the countdown ended the session and went on for a stride
\* while the POST of that invocation was still pending.
C12_CountdownEndedSlowPost ==
  \E i \in DOMAIN ends :
    ends[i].by = "countdown" /\ ends[i].pc = "posting" /\ ends[i].ticked

\* C13: once the shutdown flag is raised, speech recognition is never
\* started again: no step taken with isShuttingDown set turns a stopped
\* recognition into a started one.
C13_NoSpeechStartAfterShutdown ==
  [][st.isShuttingDown => ~(~io.recognizing /\ io'.recognizing)]_vars

\* C14: thinking time suspends speech capture but not the countdown: while
\* the page shows Thinking, speech recognition is not running (it is not
\* started again), clicking the thinking button leaves the remaining time
\* alone, and the countdown goes on by its stride while thinking.
C14_ThinkingSuspendsSpeechOnly ==
  /\ []((st.mounted /\ st.isThinking) => ~io.recognizing)
  /\ [][ThinkingTime => st'.remainingTime = st.remainingTime]_vars
  /\ [][(Tick /\ st.isThinking /\ st.remainingTime > Stride)
          => st'.remainingTime = st.remainingTime - Stride]_vars

(***************************************************************************)
(* Properties of the question set.                                         *)
(***************************************************************************)
\* C15: the question set a session runs with has as many questions as the
\* settings ask for (4 when they give no count): whenever the page shows
\* questions, their number is the questionCount of the settings.
C15_QuestionSetHasRequestedLength ==
  (st.mounted /\ ~st.questionsLoading)
    => Len(st.questions) = QuestionCountOf(st.interviewSettings)

\* C16: an installed question set is immutable: once the page holds
\* questions, no step replaces them or changes their number.
C16_QuestionSetIsImmutable ==
  [][Len(st.questions) > 0 => st'.questions = st.questions]_vars

\* C17: when fetching the questions fails, the page leaves the loading state
\* with the default questions cut or padded to the requested count: after
\* a failed fetch questionsLoading is false and the page holds exactly
\* questionCount questions.
C17_FailedFetchFallsBack ==
  [][(FetchQuestionsFailed /\ st.mounted)
       => /\ ~st'.questionsLoading
          /\ Len(st'.questions) = QuestionCountOf(st.interviewSettings)]_vars

\* How often x occurs in the sequence arr.
Occurrences(arr, x) == Cardinality({k \in DOMAIN arr : arr[k] = x})

\* The questions generation has to deliver, before they are shuffled: the
\* bank questions picked for the skills, cut to count, or followed by
\* generic questions and then by synthesised ones up to count.
QuestionsDue(picked, count) ==
  IF Len(picked) > count THEN SubSeq(picked, 1, count)
  ELSE picked \o
         [k \in 1..(count - Len(picked)) |->
            IF k <= Len(defaultSkillQuestions)
              THEN defaultSkillQuestions[k] ELSE "Generic"]

\* C39: generateQuestionsForSkills returns exactly count questions for
\* every non-empty list of skills and every count of at least 1: the bank
\* questions of the skills cut to count when they are more, padded with the
\* generic questions and then with synthesised ones when they are fewer.
C39_GeneratesExactlyCount ==
  [][\A r \in GenerationDraws :
       (st.mounted /\ FetchQuestionsDone(r)) =>
         LET count == Head(io.fetches)
             due == QuestionsDue(
                      SelectForSkills(st.interviewSettings.skills, r), count)
         IN  /\ Len(st'.questions) = count
             /\ \A q \in QuestionNames :
                  Occurrences(st'.questions, q) = Occurrences(due, q)]_vars

\* Ten questions were generated for one skill: its bank question, the six
\* generic ones and three synthesised ones.
C39_PaddedWithSynthesisedQuestions ==
  /\ Len(st.questions) = 10
  /\ Occurrences(st.questions, "Generic") = 3

(***************************************************************************)
(* Properties of the report.                                               *)
(***************************************************************************)
\* C18: the overall score of a report is round(0.3 * confidence + 0.4 *
\* relevance + 0.3 * communication) of the averages the report gives (the
\* integer k with k - 1/2 <= sum < k + 1/2), and lies in 0..100.
C18_OverallScoreIsWeightedRound ==
  \A i \in DOMAIN ends :
    ends[i].posted =>
      LET tenths == 3 * ends[i].report.confidence
                      + 4 * ends[i].report.relevance
                      + 3 * ends[i].report.communicationSkills
      IN  /\ 10 * ends[i].report.score - 5 <= tenths
          /\ tenths < 10 * ends[i].report.score + 5
          /\ ends[i].report.score \in 0..100

\* Whether avg is what the claim C19 asks of the average of the history h:
\* 0 for an empty history, else the integer of 0..100 nearest to the
\* arithmetic mean of h, a mean of k + 1/2 being rounded to k + 1.
IsRoundedMean(avg, h) ==
  IF Len(h) = 0
    THEN avg = 0
    ELSE /\ 2 * Len(h) * avg - Len(h) <= 2 * SumSeq(h)
         /\ 2 * SumSeq(h) < 2 * Len(h) * avg + Len(h)
         /\ avg \in 0..100

\* C19: each average of a report is the arithmetic mean of the history it
\* was computed from, rounded to the nearest integer; it is 0 for an empty
\* history and lies in 0..100.
C19_AverageIsRoundedMean ==
  \A i \in DOMAIN ends :
    ends[i].posted =>
      /\ IsRoundedMean(ends[i].report.confidence,
                       ends[i].report.confidenceHistory)
      /\ IsRoundedMean(ends[i].report.relevance,
                       ends[i].report.relevanceHistory)
      /\ IsRoundedMean(ends[i].report.communicationSkills,
                       ends[i].report.communicationHistory)

\* A report was sent whose confidence history has two samples with a mean
\* that is not an integer, and whose relevance history averages to an
\* integer above 0.
C19_AveragedTwoSamples ==
  \E i \in DOMAIN ends :
    /\ ends[i].posted
    /\ Len(ends[i].report.confidenceHistory) = 2
    /\ SumSeq(ends[i].report.confidenceHistory) % 2 = 1
    /\ 2 * ends[i].report.confidence
         = SumSeq(ends[i].report.confidenceHistory) + 1
    /\ ends[i].report.relevance > 0

\* The metric with the highest of the three averages, a tie going to
\* confidence before communication before relevance, as the claim C20 words
\* it.
HighestNamed(avgConfidence, avgRelevance, avgCommunication) ==
  IF avgConfidence >= avgCommunication /\ avgConfidence >= avgRelevance
    THEN "confidence"
  ELSE IF avgCommunication >= avgRelevance THEN "communication"
  ELSE "relevance"

\* The metric with the lowest of the three averages, ties as in
\* HighestNamed.
LowestNamed(avgConfidence, avgRelevance, avgCommunication) ==
  IF avgConfidence <= avgCommunication /\ avgConfidence <= avgRelevance
    THEN "confidence"
  ELSE IF avgCommunication <= avgRelevance THEN "communication"
  ELSE "relevance"

\* C20: the strength line of a report names the metric with the highest
\* average and the improvement line the metric with the lowest average,
\* ties broken in the order confidence, communication, relevance.
C20_FeedbackNamesExtremes ==
  \A i \in DOMAIN ends :
    ends[i].posted =>
      /\ ends[i].report.strength
           = HighestNamed(ends[i].report.confidence,
                          ends[i].report.relevance,
                          ends[i].report.communicationSkills)
      /\ ends[i].report.improvement
           = LowestNamed(ends[i].report.confidence,
                         ends[i].report.relevance,
                         ends[i].report.communicationSkills)

\* The average of the metric a feedback line names.
AverageNamed(name, avgConfidence, avgRelevance, avgCommunication) ==
  CASE name = "confidence" -> avgConfidence
    [] name = "communication" -> avgCommunication
    [] name = "relevance" -> avgRelevance

\* The strength line names a highest and the improvement line a lowest of
\* the three averages.
NamesExtremes(strength, improvement, c, r, m) ==
  /\ AverageNamed(strength, c, r, m) = Max(c, Max(r, m))
  /\ AverageNamed(improvement, c, r, m) = Min(c, Min(r, m))

\* Three levels of an average: the triples over them take every order the
\* three averages can be in, ties included, and the feedback lines depend
\* on nothing but that order.
AverageLevels == {0, 50, 100}

\* C38: whatever the three averages, the strength line names a metric
\* whose average is a highest of the three and the improvement line a
\* metric whose average is a lowest of the three, in every report sent and
\* for every order of the three averages.
C38_FeedbackNamesAnExtreme ==
  /\ \A i \in DOMAIN ends :
       ends[i].posted =>
         NamesExtremes(ends[i].report.strength, ends[i].report.improvement,
                       ends[i].report.confidence, ends[i].report.relevance,
                       ends[i].report.communicationSkills)
  /\ \A c \in AverageLevels, r \in AverageLevels, m \in AverageLevels :
       NamesExtremes(strengthOf(c, r, m), improvementOf(c, r, m), c, r, m)

\* A report was sent whose confidence and communication averages tie for
\* the highest.
C38_ReportWithTieAtTheTop ==
  \E i \in DOMAIN ends :
    /\ ends[i].posted
    /\ ends[i].report.confidence = ends[i].report.communicationSkills
    /\ ends[i].report.confidence > ends[i].report.relevance
    /\ ends[i].report.strength = "communication"

(***************************************************************************)
(* Properties of the scores of an answer.                                  *)
(***************************************************************************)
\* The page shows a question and the answer box is not empty.
Answering ==
  /\ st.mounted
  /\ st.userAnswer # <<>>
  /\ st.currentQuestion < Len(st.questions)

\* The key phrases of the question on display, as a set of lower-case
\* phrases.
DistinctPhrases ==
  LET keyPhrases == keyPhrasesOf(st.questions[st.currentQuestion + 1])
  IN  {toLowerCase(keyPhrases[k]) : k \in 1..Len(keyPhrases)}

\* C21: the relevance of a non-empty answer is min(100, round(100 * m /
\* min(5, |keyPhrases|))), m being the number of distinct key phrases that
\* occur in the answer ignoring case; it is an integer of 0..100, and 0 for
\* an empty answer.
C21_RelevanceCountsDistinctPhrases ==
  /\ st.relevanceScore \in 0..100
  /\ (st.mounted /\ st.userAnswer = <<>>) => st.relevanceScore = 0
  /\ Answering =>
       st.relevanceScore
         = Min(100,
               Round(100 * Cardinality({p \in DistinctPhrases :
                                          includes(toLowerCase(st.userAnswer),
                                                   p)}),
                     Min(5, Len(keyPhrasesOf(
                                  st.questions[st.currentQuestion + 1])))))

\* What the claim C22 makes of the base score raw of the answer text: raw
\* clamped to 0..100, and to 0..40 for a text under 50 characters.
ClampedScore(text, raw) ==
  IF Len(text) < 50 THEN Max(0, Min(40, raw)) ELSE Max(0, Min(100, raw))

\* 70 - penalties + bonuses of the answer on display.
BaseScore ==
  70 - totalPenalties(st.userAnswer) + totalBonuses(st.userAnswer)

\* C22: the communication score of an answer is 70 - totalPenalties +
\* totalBonuses clamped to 0..100, and at most 40 for an answer under 50
\* characters whatever its bonuses; it always lies in 0..100.
C22_CommunicationScoreIsClamped ==
  /\ st.communicationScore \in 0..100
  /\ Answering =>
       st.communicationScore
         = ClampedScore(st.userAnswer, BaseScore)

\* An answer under 50 characters whose bonuses carry the base score to 100
\* is on display, with the score 40.
C22_ShortAnswerWithBonuses ==
  /\ Answering
  /\ Len(st.userAnswer) < 50
  /\ BaseScore >= 100
  /\ st.communicationScore = 40

(***************************************************************************)
(* Properties of the answers.                                              *)
(***************************************************************************)
\* C23: the answer stored for a question that was advanced past never
\* changes again, and the report holds one answer per question: for the
\* questions advanced past the stored answers, and for the question on
\* display when endInterview was invoked the text the answer box held then.
C23_ResponsesAreTheFrozenAnswers ==
  /\ [][\A k \in 1..st.currentQuestion :
          k \in DOMAIN st.answers =>
            (k \in DOMAIN st'.answers /\ st'.answers[k] = st.answers[k])]_vars
  /\ [](\A i \in DOMAIN ends :
          (ends[i].posted
             /\ ends[i].c.currentQuestion < Len(ends[i].c.questions)) =>
            /\ Len(ends[i].report.responses) = Len(ends[i].c.questions)
            /\ ends[i].report.responses[ends[i].c.currentQuestion + 1]
                 = ends[i].c.userAnswer
            /\ \A k \in 1..ends[i].c.currentQuestion :
                 k \in DOMAIN ends[i].c.answers =>
                   ends[i].report.responses[k] = ends[i].c.answers[k])

\* C36: once endInterview has begun, through its delays and while the
\* report is being sent, a click on Next changes nothing of the session: the
\* question stays, no sample is appended and the answer is not cleared.
C36_NoAdvanceOnceEnding ==
  [][(ends # <<>> /\ NextQuestion) =>
       /\ st'.currentQuestion = st.currentQuestion
       /\ st'.confidenceHistory = st.confidenceHistory
       /\ st'.relevanceHistory = st.relevanceHistory
       /\ st'.communicationHistory = st.communicationHistory
       /\ st'.userAnswer = st.userAnswer]_vars

(***************************************************************************)
(* Properties of the countdown.                                            *)
(***************************************************************************)
\* C24: the countdown starts at the duration of the settings in seconds and
\* runs continuously: the ticks of a stride take it down by exactly the
\* seconds of the stride (never below 0), whatever the candidate is doing,
\* and nothing but a tick changes it.
C24_CountdownRunsContinuously ==
  /\ st.remainingTime = parseInt(st.interviewSettings.duration) * 60
  /\ [][Tick => st'.remainingTime = Max(0, st.remainingTime - Stride)]_vars
  /\ [][st'.remainingTime # st.remainingTime => Tick]_vars

\* C35: the countdown never rises and is never negative: the camera being
\* toggled, initialising or timing out, the models failing to load and the
\* shutdown leave it alone, and every change of it is a tick taking it down.
C35_CountdownNeverRises ==
  /\ [](st.remainingTime >= 0)
  /\ [][st'.remainingTime <= st.remainingTime]_vars
  /\ [][(\/ \E dims \in BOOLEAN : ToggleCamera(dims)
         \/ VideoInitialized
         \/ \E dims \in BOOLEAN : LoadModelsDone(FALSE, dims)
         \/ EndButton
         \/ EndStep)
          => st'.remainingTime = st.remainingTime]_vars

(***************************************************************************)
(* Properties of the face analysis.                                        *)
(***************************************************************************)
\* A step in which the face analysis fails: the models fail to load, a
\* detectFace call finds no frame dimensions, or a call in flight times out
\* or throws.
PerceptionFailure ==
  \/ \E dims \in BOOLEAN : LoadModelsDone(FALSE, dims)
  \/ Poll(FALSE)
  \/ Watchdog(FALSE)
  \/ \E i \in DOMAIN inflight :
       DetectDone(i, [kind |-> "error", face |-> NoFace])

\* C28: the success counter of the face detection stays in 0..10: a
\* detection that found a face takes it to min(prev + 1, 10), one that found
\* none, timed out or threw to max(prev - 1, 0), in whatever order polled
\* and forced detections complete.
C28_FaceHitsStayInRange ==
  /\ [](st.faceDetectionSuccess \in 0..10)
  /\ [][\A i \in DOMAIN inflight, res \in ExpressionResults :
          (st.mounted /\ DetectDone(i, res)) =>
            st'.faceDetectionSuccess
              = IF res.kind = "face"
                  THEN Min(st.faceDetectionSuccess + 1, 10)
                  ELSE Max(st.faceDetectionSuccess - 1, 0)]_vars

\* Both detections of a session have completed and the counter stands at
\* its upper limit.
C28_CounterAtLimitAfterDetections ==
  /\ budget.detect = 0
  /\ inflight = <<>>
  /\ st.confidenceScore > 0
  /\ st.faceDetectionSuccess = 10

\* C29: a detection that found a face replaces the expression on display
\* by the dominant expression of the face only if its intensity is above 0.3
\* or the expression on display is unknown or neutral; otherwise the
\* expression on display stays.
C29_ExpressionCommitRule ==
  [][\A i \in DOMAIN inflight, res \in ExpressionResults :
       (st.mounted /\ res.kind = "face" /\ DetectDone(i, res)) =>
         st'.facialExpression
           = IF \/ Dominant(res.face).value > 30
                \/ st.facialExpression \in {"unknown", "neutral"}
               THEN Dominant(res.face).expr
               ELSE st.facialExpression]_vars

\* C30: a detection that runs over its one-second limit or throws acts on
\* the face analysis exactly as a detection that found no face: the
\* confidence is 0, the expression is unknown and the count of successive
\* detections goes down by one, never below 0.
C30_FailedDetectionIsLikeNoFace ==
  [][\A i \in DOMAIN inflight :
       (st.mounted /\ DetectDone(i, [kind |-> "error", face |-> NoFace])) =>
         /\ \A f \in {"confidenceScore", "facialExpression",
                       "faceDetectionSuccess"} :
              st'[f] = Commit(World,
                              detectFaceDone(World, i,
                                [kind |-> "none", face |-> NoFace]),
                              FALSE).st[f]
         /\ st'.confidenceScore = 0
         /\ st'.facialExpression = "unknown"
         /\ st'.faceDetectionSuccess = Max(0, st.faceDetectionSuccess - 1)]_vars

\* C31: a sample taken while the video reports no frame dimensions leaves
\* the count of successive detections and the expression as they are, and
\* changes the confidence only by putting it to 0 when it was not 0 and no
\* face was confirmed (count 0); with a face confirmed the confidence stays.
C31_SampleWithoutDimensionsIsNoData ==
  [][(Poll(FALSE) \/ Watchdog(FALSE)) =>
       /\ st'.faceDetectionSuccess = st.faceDetectionSuccess
       /\ st'.facialExpression = st.facialExpression
       /\ st'.confidenceScore
            = IF st.confidenceScore # 0 /\ st.faceDetectionSuccess = 0
                THEN 0
                ELSE st.confidenceScore]_vars

\* The detection loop is stalled: the camera is on, the session is not
\* shutting down, and a detectFace call has not returned.
Stalled ==
  /\ st.mounted /\ st.cameraActive /\ st.modelsLoaded /\ ~st.isShuttingDown
  /\ inflight # <<>> /\ budget.detect > 0

\* The values the face analysis can show.
PerceptionStateIntact ==
  /\ st.faceDetectionSuccess \in 0..10
  /\ st.confidenceScore \in {0} \cup 10..100
  /\ st.facialExpression \in ExpressionSet \cup {"unknown"}

FaceSample ==
  \E i \in DOMAIN inflight, res \in DetectionResults :
    res.kind = "face" /\ DetectDone(i, res)

\* C33: after a sample that found no face (expression unknown, confidence
\* 0) the confidence stays 0 until a sample that found a face is applied:
\* no other step raises it.
C33_NoFaceOverrideHolds ==
  [][(/\ st.facialExpression = "unknown" /\ st.confidenceScore = 0
      /\ ~FaceSample)
       => st'.confidenceScore = 0]_vars

\* C37: the confidence is 0 or an integer from 10 to 100 in every state,
\* however the detections that find a face, find none or fail and the
\* confidence monitor interleave, so every confidence stored in a sample
\* is in 0..100.
C37_ConfidenceStaysInRange ==
  /\ st.confidenceScore \in {0} \cup 10..100
  /\ \A k \in DOMAIN st.confidenceHistory :
       st.confidenceHistory[k] \in 0..100

\* A sample holds a confidence the monitor forced down from the 90 of a
\* happy face.
C37_ForcedScoreStored ==
  \E k \in DOMAIN st.confidenceHistory : st.confidenceHistory[k] = 75

\* C25: a failure of the face analysis is not fatal: it starts no
\* endInterview invocation and does not leave the page, it leaves the
\* countdown alone, it does not disable the Next button, and of the scores
\* on display it only takes the confidence to 0 and the expression to
\* unknown.
C25_PerceptionFailuresAreNotFatal ==
  [][PerceptionFailure =>
       /\ Len(ends') = Len(ends)
       /\ st'.mounted = st.mounted
       /\ st'.isShuttingDown = st.isShuttingDown
       /\ st'.remainingTime = st.remainingTime
       /\ (~st.loading /\ ~st.questionsLoading) =>
            (~st'.loading /\ ~st'.questionsLoading)
       /\ st'.currentQuestion = st.currentQuestion
       /\ st'.confidenceScore \in {st.confidenceScore, 0}
       /\ st'.facialExpression \in {st.facialExpression, "unknown"}]_vars

C27_AdvanceFrame ==
  [][(NextQuestion /\ st.currentQuestion < Len(st.questions) - 1) =>
       /\ Len(st'.answers) = st.currentQuestion + 1
       /\ st'.answers[st.currentQuestion + 1] = st.userAnswer
       /\ \A k \in 1..st.currentQuestion :
            k \in DOMAIN st.answers => st'.answers[k] = st.answers[k]
       /\ st'.confidenceHistory
            = Append(st.confidenceHistory, st.confidenceScore)
       /\ st'.relevanceHistory
            = Append(st.relevanceHistory, st.relevanceScore)
       /\ st'.communicationHistory
            = Append(st.communicationHistory, st.communicationScore)
       /\ st'.currentQuestion = st.currentQuestion + 1
       /\ st'.userAnswer = <<>>
       /\ st'.speechToText = <<>>
       /\ st'.remainingTime = st.remainingTime
       /\ st'.questions = st.questions]_vars

\* The second question is on display with an empty answer box, the answer
\* typed to the first question is stored, and its communication score is in
\* the history.
C27_AdvancedPastTypedAnswer ==
  /\ st.currentQuestion = 1
  /\ Len(st.answers) = 1
  /\ st.answers[1] # <<>>
  /\ st.userAnswer = <<>>
  /\ Len(st.communicationHistory) = 1
  /\ st.communicationHistory[1] > 0
====
